---- MODULE Spec2Model ----
(***************************************************************************)
(* A model of web2md's HTML-to-Markdown conversion engine:                 *)
(*   - TurndownService (src/unnamed/part_001): rule registry, tree walker  *)
(*   - MarkdownConverter (src/markdown-converter.js): custom rules,        *)
(*     element transforms, sanitizer, post-processing normalizer.          *)
(* and of the extension around it:                                         *)
(*   - popup, background and content script handling a save (popup.js,     *)
(*     src/unnamed/part_002, src/in-page-notification.js)                  *)
(*   - FileHandler, NotificationManager and the status managers            *)
(*     (src/unnamed/part_000, src/unnamed/part_002).                       *)
(* Strings are sequences of one-character strings; a DOM node is a record. *)
(***************************************************************************)
EXTENDS Integers, Sequences, FiniteSets, TLC

VARIABLES
    rules,   \* registry: TurndownService.rules, highest priority first
    added,   \* registry: history of the addRule calls, oldest first
    query,   \* registry: the last call made on the service, with its result
    input,   \* conversion: the value passed to turndown() / convert()
    conv,    \* conversion: what the last turndown() / convert() call did
    md,      \* normalizer: the markdown string handed to postProcess
    once,    \* normalizer: postProcess(md)
    twice,   \* normalizer: postProcess(postProcess(md))
    popup,       \* extension: the popup's status, loading state and message
    background,  \* extension: what the background did with the last message
    selector,    \* extension: what the content script's conversion did
    lastUsedMode,       \* FileHandler.lastUsedMode
    saveHistory,        \* chrome.storage.local: saveHistory, newest first
    saves,              \* the saveContent calls made, each with its position
    downloads,          \* chrome.downloads: the state of each download
    waits,              \* the waitForDownloadComplete calls, by download id
    notificationQueue,  \* NotificationManager.notificationQueue
    isProcessing,       \* NotificationManager.isProcessing
    chains,             \* the processQueue invocations that have not ended
    shownLog,           \* notifications: number added, those dequeued, ids cleared
    currentStatus,      \* StatusManager.currentStatus
    statusHistory,      \* StatusManager.statusHistory
    statusCalls,        \* number of setStatus('error') calls made so far
    pc       \* position of the scenario being run

\* the state of the browser extension around the converter
pipeVars == <<popup, background, selector>>
fileVars == <<lastUsedMode, saveHistory, saves>>
downloadVars == <<downloads, waits>>
notifVars == <<notificationQueue, isProcessing, chains, shownLog>>
statusVars == <<currentStatus, statusHistory, statusCalls>>
extVars == <<pipeVars, fileVars, downloadVars, notifVars, statusVars>>

vars == <<rules, added, query, input, conv, md, once, twice, extVars, pc>>

(***************************************************************************)
(* Characters and JavaScript string primitives                             *)
(***************************************************************************)
NL == "\n"
SP == " "
TAB == "\t"
\* the backquote character (written as a name: the lexer reads a backquote
\* inside a string as the start of a verbatim region)
BT == "BQ"
Fence == <<BT, BT, BT>>

\* String.prototype.substring on 1-based inclusive positions
Sub(s, i, j) == IF i > j THEN <<>> ELSE SubSeq(s, i, j)

\* s has the literal t at position i
HasAt(s, i, t) == i >= 1 /\ i + Len(t) - 1 <= Len(s) /\ Sub(s, i, i + Len(t) - 1) = t

\* ^ with the m flag: start of input or just after a newline
AtLineStart(s, i) == i = 1 \/ (i > 1 /\ i <= Len(s) + 1 /\ s[i - 1] = NL)

\* $ with the m flag: end of input or just before a newline
AtLineEnd(s, i) == i = Len(s) + 1 \/ (i >= 1 /\ i <= Len(s) /\ s[i] = NL)

\* length of the maximal run, starting at i, of characters in S (inS = TRUE)
\* or outside S (inS = FALSE)
RECURSIVE RunLen(_, _, _, _)
RunLen(s, i, S, inS) ==
    IF i >= 1 /\ i <= Len(s) /\ ((s[i] \in S) = inS)
    THEN 1 + RunLen(s, i + 1, S, inS)
    ELSE 0

\* the class [ \t] of the line-stripping regex
HSpaces == {SP, TAB}

\* the class \s, and what trim() removes: ECMAScript WhiteSpace and
\* LineTerminator, restricted to the characters used ("nbsp" is U+00A0)
Spaces == {SP, TAB, NL, "\r", "nbsp"}

IsSpace(c) == c \in Spaces

\* String.prototype.trim
RECURSIVE TrimLeft(_)
TrimLeft(s) == IF s # <<>> /\ IsSpace(Head(s)) THEN TrimLeft(Tail(s)) ELSE s

RECURSIVE TrimRight(_)
TrimRight(s) ==
    IF s # <<>> /\ IsSpace(s[Len(s)]) THEN TrimRight(Sub(s, 1, Len(s) - 1)) ELSE s

Trim(s) == TrimRight(TrimLeft(s))

(***************************************************************************)
(* Letter case: String.prototype.toLowerCase, and the upper-casing of      *)
(* nodeName that the HTML DOM applies to HTML elements                     *)
(***************************************************************************)
UpperLetters ==
    <<"A", "B", "C", "D", "E", "F", "G", "H", "I", "J", "K", "L", "M",
      "N", "O", "P", "Q", "R", "S", "T", "U", "V", "W", "X", "Y", "Z">>

LowerLetters ==
    <<"a", "b", "c", "d", "e", "f", "g", "h", "i", "j", "k", "l", "m",
      "n", "o", "p", "q", "r", "s", "t", "u", "v", "w", "x", "y", "z">>

LetterIndex(c, table) ==
    IF \E i \in 1..Len(table) : table[i] = c
    THEN CHOOSE i \in 1..Len(table) : table[i] = c
    ELSE 0

LowerChar(c) ==
    IF LetterIndex(c, UpperLetters) > 0
    THEN LowerLetters[LetterIndex(c, UpperLetters)] ELSE c

UpperChar(c) ==
    IF LetterIndex(c, LowerLetters) > 0
    THEN UpperLetters[LetterIndex(c, LowerLetters)] ELSE c

toLowerCase(s) == [i \in 1..Len(s) |-> LowerChar(s[i])]

toUpperCase(s) == [i \in 1..Len(s) |-> UpperChar(s[i])]

(***************************************************************************)
(* DOM nodes. Every node is a record of the same shape:                    *)
(*   type  "element" | "text" | "comment"   (Node.nodeType)                *)
(*   name  nodeName of an element, as a string of characters               *)
(*   text  character data of a text node                                   *)
(*   attrs set of <<attribute name, value>> pairs of an element            *)
(*   kids  childNodes, in document order                                   *)
(***************************************************************************)
Text(t) == [type |-> "text", name |-> <<>>, text |-> t, attrs |-> {}, kids |-> <<>>]

Comment == [type |-> "comment", name |-> <<>>, text |-> <<>>, attrs |-> {}, kids |-> <<>>]

\* an element as the HTML parser creates it: nodeName is the tag in upper case
ElA(tag, attrs, kids) ==
    [type |-> "element", name |-> toUpperCase(tag), text |-> <<>>,
     attrs |-> attrs, kids |-> kids]

El(tag, kids) == ElA(tag, {}, kids)

\* an element of a non-HTML (XML) document: nodeName keeps the case written
XmlEl(name, kids) ==
    [type |-> "element", name |-> name, text |-> <<>>, attrs |-> {}, kids |-> kids]

IsElement(n) == n.type = "element"

\* Element.hasAttribute / getAttribute(a) || dflt
HasAttr(n, a) == \E p \in n.attrs : p[1] = a

AttrOr(n, a, dflt) ==
    IF HasAttr(n, a) /\ (CHOOSE p \in n.attrs : p[1] = a)[2] # <<>>
    THEN (CHOOSE p \in n.attrs : p[1] = a)[2]
    ELSE dflt

\* the descendants of a node in document order (the node itself excluded)
RECURSIVE Descendants(_)
RECURSIVE DescendantsOfAll(_)
Descendants(n) == DescendantsOfAll(n.kids)
DescendantsOfAll(ks) ==
    IF ks = <<>> THEN <<>>
    ELSE <<Head(ks)>> \o Descendants(Head(ks)) \o DescendantsOfAll(Tail(ks))

\* Node.textContent
RECURSIVE textContent(_)
RECURSIVE textContentOfAll(_)
textContent(n) ==
    IF n.type = "text" THEN n.text
    ELSE IF n.type = "comment" THEN <<>>
    ELSE textContentOfAll(n.kids)
textContentOfAll(ks) ==
    IF ks = <<>> THEN <<>>
    ELSE textContent(Head(ks)) \o textContentOfAll(Tail(ks))

\* the elements of a node sequence whose tag is in names (a selector list of
\* type selectors; type selectors match HTML elements ignoring case)
SelectElements(ns, names) ==
    SelectSeq(ns, LAMBDA n : IsElement(n) /\ toLowerCase(n.name) \in names)

\* Element.querySelectorAll('a, b, ...') for type selectors
querySelectorAll(n, names) == SelectElements(Descendants(n), names)

\* tag names as the source writes them
Tag ==
    [p |-> <<"p">>,
     h1 |-> <<"h", "1">>,
     h2 |-> <<"h", "2">>,
     h3 |-> <<"h", "3">>,
     h4 |-> <<"h", "4">>,
     h5 |-> <<"h", "5">>,
     h6 |-> <<"h", "6">>,
     strong |-> <<"s", "t", "r", "o", "n", "g">>,
     b |-> <<"b">>,
     em |-> <<"e", "m">>,
     i |-> <<"i">>,
     a |-> <<"a">>,
     img |-> <<"i", "m", "g">>,
     code |-> <<"c", "o", "d", "e">>,
     pre |-> <<"p", "r", "e">>,
     br |-> <<"b", "r">>,
     hr |-> <<"h", "r">>,
     blockquote |-> <<"b", "l", "o", "c", "k", "q", "u", "o", "t", "e">>,
     ul |-> <<"u", "l">>,
     ol |-> <<"o", "l">>,
     li |-> <<"l", "i">>,
     table |-> <<"t", "a", "b", "l", "e">>,
     del |-> <<"d", "e", "l">>,
     s |-> <<"s">>,
     strike |-> <<"s", "t", "r", "i", "k", "e">>,
     u |-> <<"u">>,
     span |-> <<"s", "p", "a", "n">>,
     div |-> <<"d", "i", "v">>,
     body |-> <<"b", "o", "d", "y">>,
     script |-> <<"s", "c", "r", "i", "p", "t">>,
     style |-> <<"s", "t", "y", "l", "e">>,
     noscript |-> <<"n", "o", "s", "c", "r", "i", "p", "t">>,
     tr |-> <<"t", "r">>,
     td |-> <<"t", "d">>,
     th |-> <<"t", "h">>,
     thead |-> <<"t", "h", "e", "a", "d">>]

(***************************************************************************)
(* JavaScript values returned by filters: [t |-> typeof, v |-> number]     *)
(***************************************************************************)
JSBool(b) == [t |-> "boolean", v |-> IF b THEN 1 ELSE 0]
JSNull == [t |-> "null", v |-> 0]
JSObject == [t |-> "object", v |-> 1]
JSNumber(n) == [t |-> "number", v |-> n]

\* ToBoolean, as applied by if (...) and by Array.prototype.some
Truthy(x) ==
    CASE x.t = "boolean" -> x.v = 1
      [] x.t = "number" -> x.v # 0
      [] x.t = "object" -> TRUE
      [] OTHER -> FALSE

(***************************************************************************)
(* Rule filters: a string, an array of filters, a function, or any other   *)
(* value. A function is named; ApplyFilterFunction gives what it returns.  *)
(***************************************************************************)
FString(str) == [kind |-> "string", str |-> str, items |-> <<>>, fn |-> ""]
FArray(items) == [kind |-> "array", str |-> <<>>, items |-> items, fn |-> ""]
FFunction(fn) == [kind |-> "function", str |-> <<>>, items |-> <<>>, fn |-> fn]
FOther == [kind |-> "other", str |-> <<>>, items |-> <<>>, fn |-> ""]

\* Element.querySelector('code'): the first match or null
querySelectorCode(n) ==
    LET found == querySelectorAll(n, {Tag.code})
    IN IF found = <<>> THEN JSNull ELSE JSObject

\* "preWithCode": the filter of the rule 'codeBlocks',
\*     (node) => node.nodeName === 'PRE' && node.querySelector('code')
\* "childCount": a filter a caller may register, (node) => node.childNodes.length
ApplyFilterFunction(fn, node) ==
    CASE fn = "preWithCode" ->
            IF node.name = toUpperCase(Tag.pre)
            THEN querySelectorCode(node) ELSE JSBool(FALSE)
      [] fn = "childCount" -> JSNumber(Len(node.kids))

\* mutant: the string case compares without lower-casing the filter
RECURSIVE matchesFilterCaseSensitive(_, _)
matchesFilterCaseSensitive(node, filter) ==
    CASE filter.kind = "string" ->
            JSBool(toLowerCase(node.name) = filter.str)
      [] filter.kind = "array" ->
            JSBool(\E k \in 1..Len(filter.items) :
                       Truthy(matchesFilterCaseSensitive(node, filter.items[k])))
      [] filter.kind = "function" -> ApplyFilterFunction(filter.fn, node)
      [] OTHER -> JSBool(FALSE)

\* TurndownService.matchesFilter
RECURSIVE matchesFilter(_, _)
matchesFilter(node, filter) ==
    CASE filter.kind = "string" ->
            JSBool(toLowerCase(node.name) = toLowerCase(filter.str))
      [] filter.kind = "array" ->
            JSBool(\E k \in 1..Len(filter.items) :
                       Truthy(matchesFilter(node, filter.items[k])))
      [] filter.kind = "function" -> ApplyFilterFunction(filter.fn, node)
      [] OTHER -> JSBool(FALSE)

(***************************************************************************)
(* The rule registry. A rule is [name, filter]; its replacement function   *)
(* is the one that the source registers under that name.                   *)
(***************************************************************************)
Rule(name, filter) == [name |-> name, filter |-> filter]

NoRule == Rule("", FOther)

FTags(tags) == FArray([k \in 1..Len(tags) |-> FString(tags[k])])

\* mutant: the rule is appended, so older rules keep priority
addRuleAppend(rs, rule) == Append(rs, rule)

\* mutant: a rule registered under a name in use replaces the older rule
addRuleReplace(rs, rule) ==
    <<rule>> \o SelectSeq(rs, LAMBDA r : r.name # rule.name)

\* TurndownService.addRule: this.rules.unshift({name, ...rule})
addRule(rs, rule) == <<rule>> \o rs

\* a run of addRule calls in the order of the sequence toAdd
RECURSIVE addRules(_, _)
addRules(rs, toAdd) ==
    IF toAdd = <<>> THEN rs ELSE addRules(addRule(rs, Head(toAdd)), Tail(toAdd))

\* the addRule calls of TurndownService.initDefaultRules, in call order
DefaultRuleCalls ==
    << Rule("paragraph", FString(Tag.p)),
       Rule("heading", FTags(<<Tag.h1, Tag.h2, Tag.h3, Tag.h4, Tag.h5, Tag.h6>>)),
       Rule("strong", FTags(<<Tag.strong, Tag.b>>)),
       Rule("emphasis", FTags(<<Tag.em, Tag.i>>)),
       Rule("link", FString(Tag.a)),
       Rule("image", FString(Tag.img)),
       Rule("code", FString(Tag.code)),
       Rule("codeBlock", FString(Tag.pre)),
       Rule("lineBreak", FString(Tag.br)),
       Rule("horizontalRule", FString(Tag.hr)),
       Rule("blockquote", FString(Tag.blockquote)),
       Rule("list", FTags(<<Tag.ul, Tag.ol>>)),
       Rule("listItem", FString(Tag.li)) >>

\* the addRule calls of MarkdownConverter.initCustomRules, in call order
CustomRuleCalls ==
    << Rule("tables", FString(Tag.table)),
       Rule("improvedLists", FTags(<<Tag.ul, Tag.ol>>)),
       Rule("codeBlocks", FFunction("preWithCode")),
       Rule("images", FString(Tag.img)),
       Rule("strikethrough", FTags(<<Tag.del, Tag.s, Tag.strike>>)),
       Rule("underline", FString(Tag.u)),
       Rule("blockquotes", FString(Tag.blockquote)) >>

\* this.rules after new TurndownService(options)
TurndownRules == addRules(<<>>, DefaultRuleCalls)

\* this.converter.rules after new MarkdownConverter()
ConverterRules == addRules(TurndownRules, CustomRuleCalls)

\* TurndownService.findMatchingRule: the first rule whose filter matches
RECURSIVE findMatchingRule(_, _)
findMatchingRule(rs, node) ==
    IF rs = <<>> THEN NoRule
    ELSE IF Truthy(matchesFilter(node, Head(rs).filter)) THEN Head(rs)
         ELSE findMatchingRule(Tail(rs), node)

(***************************************************************************)
(* More string primitives                                                  *)
(***************************************************************************)

\* Array.prototype.flat / join(''): the concatenation of the pieces
RECURSIVE Flatten(_)
Flatten(ps) == IF ps = <<>> THEN <<>> ELSE Head(ps) \o Flatten(Tail(ps))

\* String.prototype.repeat for a one-character string
RECURSIVE Repeat(_, _)
Repeat(c, n) == IF n <= 0 THEN <<>> ELSE <<c>> \o Repeat(c, n - 1)

\* String.prototype.split('\n'): the pieces between the separators
RECURSIVE SplitFrom(_, _, _)
SplitFrom(s, i, sep) ==
    LET n == RunLen(s, i, {sep}, FALSE)
    IN IF i + n > Len(s) THEN <<Sub(s, i, i + n - 1)>>
       ELSE <<Sub(s, i, i + n - 1)>> \o SplitFrom(s, i + n + 1, sep)

Split(s, sep) == SplitFrom(s, 1, sep)

\* Array.prototype.join
RECURSIVE Join(_, _)
Join(parts, sep) ==
    IF parts = <<>> THEN <<>>
    ELSE IF Len(parts) = 1 THEN parts[1]
         ELSE parts[1] \o sep \o Join(Tail(parts), sep)

\* the decimal digits of a number, as template literals print it
Digits == <<"0", "1", "2", "3", "4", "5", "6", "7", "8", "9">>

RECURSIVE NumberToString(_)
NumberToString(n) ==
    IF n < 10 THEN <<Digits[n + 1]>>
    ELSE NumberToString(n \div 10) \o <<Digits[(n % 10) + 1]>>

\* parseInt of one character: the digit's value (NaN is written -1)
parseIntChar(c) ==
    IF \E d \in 1..10 : Digits[d] = c THEN (CHOOSE d \in 1..10 : Digits[d] = c) - 1
    ELSE -1

(***************************************************************************)
(* innerHTML and DOMParser, at the level of tokens: a text token holds the *)
(* escaped character data; start and end tags are single tokens.           *)
(***************************************************************************)
\* elements that have no end tag and no children
VoidTags == {Tag.br, Tag.hr, Tag.img}

\* character data is escaped when serialized and unescaped when parsed
EscapeChar(c) ==
    CASE c = "<" -> "&lt;"
      [] c = ">" -> "&gt;"
      [] c = "&" -> "&amp;"
      [] c = "nbsp" -> "&nbsp;"
      [] OTHER -> c

UnescapeChar(c) ==
    CASE c = "&lt;" -> "<"
      [] c = "&gt;" -> ">"
      [] c = "&amp;" -> "&"
      [] c = "&nbsp;" -> "nbsp"
      [] OTHER -> c

Escape(t) == [i \in 1..Len(t) |-> EscapeChar(t[i])]
Unescape(t) == [i \in 1..Len(t) |-> UnescapeChar(t[i])]

Token(k, name, attrs, text) == [k |-> k, name |-> name, attrs |-> attrs, text |-> text]

\* the serialization of a node: Element.outerHTML
RECURSIVE Serialize(_)
RECURSIVE SerializeAll(_)
Serialize(n) ==
    CASE n.type = "text" -> <<Token("text", <<>>, {}, Escape(n.text))>>
      [] n.type = "comment" -> <<Token("comment", <<>>, {}, <<>>)>>
      [] OTHER ->
            IF toLowerCase(n.name) \in VoidTags
            THEN <<Token("open", toLowerCase(n.name), n.attrs, <<>>)>>
            ELSE <<Token("open", toLowerCase(n.name), n.attrs, <<>>)>>
                   \o SerializeAll(n.kids)
                   \o <<Token("close", toLowerCase(n.name), {}, <<>>)>>
SerializeAll(ks) ==
    IF ks = <<>> THEN <<>> ELSE Serialize(Head(ks)) \o SerializeAll(Tail(ks))

\* in the serialized string adjacent runs of character data are one run, and
\* an empty text node leaves nothing
RECURSIVE MergeText(_)
MergeText(toks) ==
    IF toks = <<>> THEN <<>>
    ELSE IF Head(toks).k = "text" /\ Head(toks).text = <<>> THEN MergeText(Tail(toks))
    ELSE IF Len(toks) >= 2 /\ Head(toks).k = "text" /\ toks[2].k = "text"
         THEN MergeText(<<Token("text", <<>>, {}, toks[1].text \o toks[2].text)>>
                            \o Tail(Tail(toks)))
         ELSE <<Head(toks)>> \o MergeText(Tail(toks))

\* Element.innerHTML (getter)
innerHTML(n) == MergeText(SerializeAll(n.kids))

\* the tree builder: the nodes made of the tokens from position i up to the
\* end tag that closes the enclosing element (or the end of input);
\* [nodes, next]. A newline that directly follows <pre> is dropped.
RECURSIVE ParseFrom(_, _, _)
ParseFrom(toks, i, afterPre) ==
    IF i > Len(toks) \/ toks[i].k = "close" THEN [nodes |-> <<>>, next |-> i + 1]
    ELSE LET t == toks[i]
         IN CASE t.k = "text" ->
                   LET raw == Unescape(t.text)
                       data == IF afterPre /\ raw # <<>> /\ raw[1] = NL
                               THEN Tail(raw) ELSE raw
                       rest == ParseFrom(toks, i + 1, FALSE)
                   IN [nodes |-> (IF data = <<>> THEN <<>> ELSE <<Text(data)>>)
                                     \o rest.nodes,
                       next |-> rest.next]
              [] t.k = "comment" ->
                   LET rest == ParseFrom(toks, i + 1, FALSE)
                   IN [nodes |-> <<Comment>> \o rest.nodes, next |-> rest.next]
              [] OTHER ->
                   IF t.name \in VoidTags
                   THEN LET rest == ParseFrom(toks, i + 1, FALSE)
                        IN [nodes |-> <<ElA(t.name, t.attrs, <<>>)>> \o rest.nodes,
                            next |-> rest.next]
                   ELSE LET inner == ParseFrom(toks, i + 1, t.name = Tag.pre)
                            rest == ParseFrom(toks, inner.next, FALSE)
                        IN [nodes |-> <<ElA(t.name, t.attrs, inner.nodes)>>
                                          \o rest.nodes,
                            next |-> rest.next]

\* white space before the first tag or text of a document is not part of body
DropLeadingSpace(toks) ==
    IF toks # <<>> /\ Head(toks).k = "text"
    THEN IF TrimLeft(Head(toks).text) = <<>> THEN Tail(toks)
         ELSE <<Token("text", <<>>, {}, TrimLeft(Head(toks).text))>> \o Tail(toks)
    ELSE toks

\* new DOMParser().parseFromString(input, 'text/html').body
parseBody(html) == El(Tag.body, ParseFrom(DropLeadingSpace(html), 1, FALSE).nodes)

\* tempDiv.innerHTML = html (setter): the children of the div
parseFragment(html) == ParseFrom(html, 1, FALSE).nodes

(***************************************************************************)
(* The tree walker and the replacement functions. Each operator returns    *)
(*   [out |-> the string returned, log |-> the processNode calls made on   *)
(*    elements, as records [doc, path, node, rule, content, out]]          *)
(* where doc names the document the node belongs to (the converted         *)
(* document is <<>>; each DOMParser call made while converting builds a     *)
(* new one), path is the node's position in it, rule is the name of the    *)
(* rule whose replacement was invoked ("" when none matched).              *)
(***************************************************************************)
\* options of the TurndownService (MarkdownConverter passes the defaults)
options ==
    [emDelimiter |-> <<"_">>,
     strongDelimiter |-> <<"*", "*">>,
     br |-> <<NL>>,
     hr |-> <<"-", "-", "-">>]

\* the default alt text of rule 'images' (two CJK characters)
DefaultAlt == <<"U+56FE", "U+7247">>

Result(out, log) == [out |-> out, log |-> log]

Event(doc, path, node, rule, content, out) ==
    [doc |-> doc, path |-> path, node |-> node, rule |-> rule,
     content |-> content, out |-> out]

WordChars ==
    {UpperLetters[i] : i \in 1..26} \cup {LowerLetters[i] : i \in 1..26}
        \cup {Digits[i] : i \in 1..10} \cup {"_"}

LanguagePrefix == <<"l", "a", "n", "g", "u", "a", "g", "e", "-">>

\* className.match(/language-(\w+)/): the first capture, or '' without a match
RECURSIVE LanguageFrom(_, _)
LanguageFrom(cls, i) ==
    IF i > Len(cls) THEN <<>>
    ELSE IF HasAt(cls, i, LanguagePrefix) /\ RunLen(cls, i + 9, WordChars, TRUE) >= 1
         THEN Sub(cls, i + 9, i + 8 + RunLen(cls, i + 9, WordChars, TRUE))
         ELSE LanguageFrom(cls, i + 1)

\* String.prototype.replace(/\|/g, '\\|')
RECURSIVE EscapePipes(_)
EscapePipes(t) ==
    IF t = <<>> THEN <<>>
    ELSE (IF Head(t) = "|" THEN <<"\\", "|">> ELSE <<Head(t)>>) \o EscapePipes(Tail(t))

\* MarkdownConverter.convertTable
TableCells(row) ==
    LET cells == querySelectorAll(row, {Tag.td, Tag.th})
    IN [k \in 1..Len(cells) |-> EscapePipes(Trim(textContent(cells[k])))]

RECURSIVE TableRowsFrom(_, _, _)
TableRowsFrom(rows, k, hasHeader) ==
    IF k > Len(rows) THEN <<>>
    ELSE LET cellContents == TableCells(rows[k])
             separator == [c \in 1..Len(cellContents) |-> <<"-", "-", "-">>]
         IN <<"|", SP>> \o Join(cellContents, <<SP, "|", SP>>) \o <<SP, "|", NL>>
              \o (IF k = 1 /\ hasHeader
                  THEN <<"|", SP>> \o Join(separator, <<SP, "|", SP>>) \o <<SP, "|", NL>>
                  ELSE <<>>)
              \o TableRowsFrom(rows, k + 1, hasHeader)

convertTable(tableNode) ==
    LET rows == querySelectorAll(tableNode, {Tag.tr})
    IN IF rows = <<>> THEN <<>>
       ELSE LET hasHeader == \/ querySelectorAll(tableNode, {Tag.thead}) # <<>>
                             \/ querySelectorAll(rows[1], {Tag.th}) # <<>>
            IN <<NL, NL>> \o TableRowsFrom(rows, 1, hasHeader) \o <<NL>>

\* MarkdownConverter.convertCodeBlock
convertCodeBlock(preNode) ==
    LET found == querySelectorAll(preNode, {Tag.code})
    IN IF found = <<>> THEN <<>>
       ELSE LET codeNode == found[1]
                content == textContent(codeNode)
                language == LanguageFrom(AttrOr(codeNode, "class", <<>>), 1)
            IN <<NL, NL>> \o Fence \o language \o <<NL>> \o content \o <<NL>>
                 \o Fence \o <<NL, NL>>

\* the blockquote replacements: lines of the trimmed content, each trimmed
QuoteLinesDefault(content) ==
    LET lines == Split(Trim(content), NL)
    IN [k \in 1..Len(lines) |-> <<">", SP>> \o Trim(lines[k])]

\* the lines of the custom rule with "> " put before the empty lines too
QuoteLinesAllPrefixed(content) ==
    LET lines == Split(Trim(content), NL)
    IN [k \in 1..Len(lines) |-> <<">", SP>> \o Trim(lines[k])]

QuoteLinesCustom(content) ==
    LET lines == Split(Trim(content), NL)
    IN [k \in 1..Len(lines) |->
           IF Trim(lines[k]) # <<>> THEN <<">", SP>> \o Trim(lines[k]) ELSE <<">">>]

\* the lines of one list item of convertList: prefix, then indented lines
ItemLines(content, prefix, indent) ==
    LET lines == Split(content, NL)
    IN [k \in 1..Len(lines) |-> IF k = 1 THEN prefix \o lines[k] ELSE indent \o lines[k]]

\* list.remove() for every nested ul, ol of the cloned item
RECURSIVE RemoveLists(_)
RemoveLists(n) ==
    LET keep == SelectSeq(n.kids, LAMBDA c :
                    ~(IsElement(c) /\ toLowerCase(c.name) \in {Tag.ul, Tag.ol}))
    IN [n EXCEPT !.kids = [k \in 1..Len(keep) |-> RemoveLists(keep[k])]]

\* the link structure put around the content whether or not there is a href
linkReplacementBracketed(content, node) ==
    LET href == AttrOr(node, "href", <<>>)
        title == AttrOr(node, "title", <<>>)
        titlePart == IF title # <<>> THEN <<SP, "\"">> \o title \o <<"\"">> ELSE <<>>
    IN <<"[">> \o content \o <<"]", "(">> \o href \o titlePart \o <<")">>

\* the replacement of the default rule 'link'; getAttribute gives null for a
\* missing attribute, and !href holds for null and for ''
linkReplacement(content, node) ==
    LET href == AttrOr(node, "href", <<>>)
        title == AttrOr(node, "title", <<>>)
        titlePart == IF title # <<>> THEN <<SP, "\"">> \o title \o <<"\"">> ELSE <<>>
    IN IF href = <<>> THEN content
       ELSE <<"[">> \o content \o <<"]", "(">> \o href \o titlePart \o <<")">>

\* a rule a caller registers whose replacement throws; no function of the
\* walker catches, so the throw ends every call on the stack
Throws(name) == name = "userThrows"

\* a replacement threw during the calls that wrote this log
Thrown(log) == \E i \in 1..Len(log) : Throws(log[i].rule)

\* the invocations made until a replacement threw, the throwing one included
UntilThrow(log) ==
    IF Thrown(log)
    THEN Sub(log, 1, CHOOSE i \in 1..Len(log) :
                        /\ Throws(log[i].rule)
                        /\ \A j \in 1..(i - 1) : ~Throws(log[j].rule))
    ELSE log

RECURSIVE processNode(_, _, _, _, _)
RECURSIVE processChildrenFrom(_, _, _, _, _)
RECURSIVE replacement(_, _, _, _, _, _, _)
RECURSIVE defaultListItemsFrom(_, _, _, _, _, _)
RECURSIVE convertListItemsFrom(_, _, _, _, _, _)
RECURSIVE turndown(_, _, _)
RECURSIVE getTextContent(_, _, _)
RECURSIVE convertList(_, _, _, _)

\* TurndownService.turndown(input) for a string input; doc names the new
\* document
turndown(rs, html, doc) ==
    LET r == processNode(rs, parseBody(html), <<>>, doc, <<>>)
    IN Result(Trim(r.out), r.log)

\* MarkdownConverter.getTextContent; the clone is converted in a document
\* of its own
getTextContent(rs, element, doc) ==
    LET tempDiv == El(Tag.div, <<RemoveLists(element)>>)
    IN turndown(rs, innerHTML(tempDiv), doc)

\* the forEach of convertList over items, from index k (0-based index + 1)
convertListItemsFrom(rs, items, k, isOrdered, doc, path) ==
    IF k > Len(items) THEN Result(<<>>, <<>>)
    ELSE LET r == getTextContent(rs, items[k], doc \o <<<<path, k>>>>)
             content == Trim(r.out)
             prefix == IF isOrdered THEN NumberToString(k) \o <<".", SP>>
                       ELSE <<"-", SP>>
             indent == IF isOrdered THEN <<SP, SP, SP>> ELSE <<SP, SP>>
             rest == convertListItemsFrom(rs, items, k + 1, isOrdered, doc, path)
         IN Result((IF content # <<>>
                    THEN Join(ItemLines(content, prefix, indent), <<NL>>) \o <<NL>>
                    ELSE <<>>) \o rest.out,
                   r.log \o rest.log)

\* MarkdownConverter.convertList
convertList(rs, listNode, doc, path) ==
    LET isOrdered == toLowerCase(listNode.name) = Tag.ol
        items == querySelectorAll(listNode, {Tag.li})
    IN IF items = <<>> THEN Result(<<>>, <<>>)
       ELSE LET r == convertListItemsFrom(rs, items, 1, isOrdered, doc, path)
            IN Result(<<NL, NL>> \o r.out \o <<NL>>, r.log)

\* the forEach of the default rule 'list' over the LI children; ks are their
\* positions among childNodes
defaultListItemsFrom(rs, node, ks, k, doc, path) ==
    IF k > Len(ks) THEN Result(<<>>, <<>>)
    ELSE LET r == processNode(rs, node.kids[ks[k]], node.name, doc, path \o <<ks[k]>>)
             text == Trim(r.out)
             prefix == IF node.name = toUpperCase(Tag.ol)
                       THEN NumberToString(k) \o <<".", SP>> ELSE <<"-", SP>>
             rest == defaultListItemsFrom(rs, node, ks, k + 1, doc, path)
         IN Result((IF text # <<>> THEN prefix \o text \o <<NL>> ELSE <<>>) \o rest.out,
                   r.log \o rest.log)

\* rule.replacement(content, node) of the rule with the given name
replacement(rs, name, content, node, parentName, doc, path) ==
    CASE name = "paragraph" -> Result(<<NL, NL>> \o content \o <<NL, NL>>, <<>>)
      [] name = "heading" ->
            Result(<<NL, NL>> \o Repeat("#", parseIntChar(node.name[2])) \o <<SP>>
                     \o content \o <<NL, NL>>, <<>>)
      [] name = "strong" ->
            Result(IF Trim(content) # <<>>
                   THEN options.strongDelimiter \o content \o options.strongDelimiter
                   ELSE <<>>, <<>>)
      [] name = "emphasis" ->
            Result(IF Trim(content) # <<>>
                   THEN options.emDelimiter \o content \o options.emDelimiter
                   ELSE <<>>, <<>>)
      [] name = "link" -> Result(linkReplacement(content, node), <<>>)
      [] name \in {"image", "images"} ->
            LET src == AttrOr(node, "src", <<>>)
                alt == AttrOr(node, "alt", IF name = "images" THEN DefaultAlt ELSE <<>>)
                title == AttrOr(node, "title", <<>>)
                titlePart == IF title # <<>> THEN <<SP, "\"">> \o title \o <<"\"">>
                             ELSE <<>>
            IN Result(IF src = <<>> THEN <<"[">> \o alt \o <<"]">>
                      ELSE <<"!", "[">> \o alt \o <<"]", "(">> \o src \o titlePart
                             \o <<")">>, <<>>)
      [] name = "code" ->
            Result(IF parentName = toUpperCase(Tag.pre) THEN content
                   ELSE IF Trim(content) # <<>> THEN <<BT>> \o content \o <<BT>>
                   ELSE <<>>, <<>>)
      [] name = "codeBlock" ->
            LET found == querySelectorAll(node, {Tag.code})
                text == IF found # <<>> THEN textContent(found[1]) ELSE textContent(node)
            IN Result(<<NL, NL>> \o Fence \o <<NL>> \o text \o <<NL>> \o Fence
                        \o <<NL, NL>>, <<>>)
      [] name = "lineBreak" -> Result(options.br, <<>>)
      [] name = "horizontalRule" -> Result(<<NL, NL>> \o options.hr \o <<NL, NL>>, <<>>)
      [] name = "blockquote" ->
            Result(<<NL, NL>> \o Join(QuoteLinesDefault(content), <<NL>>) \o <<NL, NL>>,
                   <<>>)
      [] name = "list" ->
            LET ks == SelectSeq([k \in 1..Len(node.kids) |-> k], LAMBDA k :
                          IsElement(node.kids[k])
                              /\ node.kids[k].name = toUpperCase(Tag.li))
                r == defaultListItemsFrom(rs, node, ks, 1, doc, path)
            IN Result(<<NL, NL>> \o r.out \o <<NL>>, r.log)
      [] name = "listItem" -> Result(Trim(content), <<>>)
      [] name = "tables" -> Result(convertTable(node), <<>>)
      [] name = "improvedLists" -> convertList(rs, node, doc, path)
      [] name = "codeBlocks" -> Result(convertCodeBlock(node), <<>>)
      [] name = "strikethrough" ->
            Result(IF Trim(content) # <<>> THEN <<"~", "~">> \o content \o <<"~", "~">>
                   ELSE <<>>, <<>>)
      [] name = "underline" ->
            Result(IF Trim(content) # <<>>
                   THEN <<"<", "u", ">">> \o content \o <<"<", "/", "u", ">">>
                   ELSE <<>>, <<>>)
      [] name = "blockquotes" ->
            Result(<<NL, NL>> \o Join(QuoteLinesCustom(content), <<NL>>) \o <<NL, NL>>,
                   <<>>)
      [] Throws(name) -> Result(<<>>, <<>>)

\* the loop of TurndownService.processChildren, from child k
processChildrenFrom(rs, node, k, doc, path) ==
    IF k > Len(node.kids) THEN Result(<<>>, <<>>)
    ELSE LET a == processNode(rs, node.kids[k], node.name, doc, path \o <<k>>)
             b == processChildrenFrom(rs, node, k + 1, doc, path)
         IN Result(a.out \o b.out, a.log \o b.log)

\* TurndownService.processChildren
processChildren(rs, node, doc, path) == processChildrenFrom(rs, node, 1, doc, path)

\* processNode with a space put around the children's output of an element
\* that no rule matches
processNodePadded(rs, node, parentName, doc, path) ==
    IF node.type = "text" THEN Result(node.text, <<>>)
    ELSE IF node.type # "element" THEN Result(<<>>, <<>>)
    ELSE LET rule == findMatchingRule(rs, node)
             kids == processChildren(rs, node, doc, path)
         IN IF rule # NoRule
            THEN LET r == replacement(rs, rule.name, kids.out, node, parentName,
                                      doc, path)
                 IN Result(r.out,
                           kids.log \o r.log
                             \o <<Event(doc, path, node, rule.name, kids.out, r.out)>>)
            ELSE Result(<<SP>> \o kids.out \o <<SP>>,
                        kids.log \o <<Event(doc, path, node, "", kids.out,
                                            <<SP>> \o kids.out \o <<SP>>)>>)

\* TurndownService.processNode; parentName is node.parentNode.nodeName
processNode(rs, node, parentName, doc, path) ==
    IF node.type = "text" THEN Result(node.text, <<>>)
    ELSE IF node.type # "element" THEN Result(<<>>, <<>>)
    ELSE LET rule == findMatchingRule(rs, node)
             kids == processChildren(rs, node, doc, path)
         IN IF rule # NoRule
            THEN LET r == replacement(rs, rule.name, kids.out, node, parentName,
                                      doc, path)
                 IN Result(r.out,
                           kids.log \o r.log
                             \o <<Event(doc, path, node, rule.name, kids.out, r.out)>>)
            ELSE Result(kids.out,
                        kids.log \o <<Event(doc, path, node, "", kids.out, kids.out)>>)

(***************************************************************************)
(* MarkdownConverter.postProcess: one operator per regex replacement.      *)
(* Each scans the string left to right as String.prototype.replace with a  *)
(* global regex does: at position i either the regex matches (the match is *)
(* replaced and the scan resumes after it) or s[i] is copied.              *)
(***************************************************************************)

\* markdown.replace(/\n{3,}/g, '\n\n')
RECURSIVE CollapseFrom(_, _)
CollapseFrom(s, i) ==
    IF i > Len(s) THEN <<>>
    ELSE LET n == RunLen(s, i, {NL}, TRUE)
         IN IF n >= 3 THEN <<NL, NL>> \o CollapseFrom(s, i + n)
            ELSE <<s[i]>> \o CollapseFrom(s, i + 1)

CollapseNewlines(s) == CollapseFrom(s, 1)

\* markdown.replace(/^[ \t]+|[ \t]+$/gm, '')
RECURSIVE StripFrom(_, _)
StripFrom(s, i) ==
    IF i > Len(s) THEN <<>>
    ELSE LET n == RunLen(s, i, HSpaces, TRUE)
         IN IF n >= 1 /\ (AtLineStart(s, i) \/ AtLineEnd(s, i + n))
            THEN StripFrom(s, i + n)
            ELSE <<s[i]>> \o StripFrom(s, i + 1)

StripLines(s) == StripFrom(s, 1)

\* markdown.replace(/^([-*+]|\d+\.)\s/gm, (match) => match): every match is
\* replaced by itself
ListItemSpacing(s) == s

\* markdown.replace(/^(#{1,6})\s(.+)$/gm, hashes + ' ' + title.trim())
\* \s may be a newline; (.+) is the rest of the line that follows it
RECURSIVE HeadingFrom(_, _)
HeadingFrom(s, i) ==
    IF i > Len(s) THEN <<>>
    ELSE LET h == RunLen(s, i, {"#"}, TRUE)
             t == RunLen(s, i + h + 1, {NL}, FALSE)
         IN IF /\ AtLineStart(s, i)
               /\ h >= 1 /\ h <= 6
               /\ i + h <= Len(s) /\ IsSpace(s[i + h])
               /\ t >= 1
            THEN Sub(s, i, i + h - 1) \o <<SP>>
                   \o Trim(Sub(s, i + h + 1, i + h + t))
                   \o HeadingFrom(s, i + h + 1 + t)
            ELSE <<s[i]>> \o HeadingFrom(s, i + 1)

HeadingFormat(s) == HeadingFrom(s, 1)

\* markdown.replace(/^>\s*$/gm, '>'): \s* is greedy and backtracks to the
\* longest run of whitespace that ends at a line end
QuoteSpan(s, i) ==
    LET n == RunLen(s, i + 1, Spaces, TRUE)
        K == {k \in 0..n : AtLineEnd(s, i + 1 + k)}
    IN IF K = {} THEN -1 ELSE CHOOSE k \in K : \A m \in K : m <= k

RECURSIVE QuoteFrom(_, _)
QuoteFrom(s, i) ==
    IF i > Len(s) THEN <<>>
    ELSE IF AtLineStart(s, i) /\ s[i] = ">" /\ QuoteSpan(s, i) >= 0
         THEN <<">">> \o QuoteFrom(s, i + 1 + QuoteSpan(s, i))
         ELSE <<s[i]>> \o QuoteFrom(s, i + 1)

QuoteCleanup(s) == QuoteFrom(s, 1)

\* markdown.replace(/(^|\n)(FENCE[\s\S]*?FENCE)/g, '\n\n$2\n\n') where FENCE is
\* three backquotes; no m flag: ^ is the start of the input only; [\s\S]*?
\* stops at the nearest FENCE
RECURSIVE FenceClose(_, _)
FenceClose(s, j) ==
    IF j + 2 > Len(s) THEN 0
    ELSE IF HasAt(s, j, Fence) THEN j ELSE FenceClose(s, j + 1)

\* the position of the opening fence of a match that starts at i, or 0
FenceOpenAt(s, i) ==
    IF i = 1 /\ HasAt(s, 1, Fence) /\ FenceClose(s, 4) > 0 THEN 1
    ELSE IF i <= Len(s) /\ s[i] = NL /\ HasAt(s, i + 1, Fence) /\ FenceClose(s, i + 4) > 0
         THEN i + 1
         ELSE 0

RECURSIVE FenceFrom(_, _)
FenceFrom(s, i) ==
    IF i > Len(s) THEN <<>>
    ELSE LET o == FenceOpenAt(s, i)
         IN IF o > 0
            THEN LET c == FenceClose(s, o + 3)
                 IN <<NL, NL>> \o Sub(s, o, c + 2) \o <<NL, NL>>
                      \o FenceFrom(s, c + 3)
            ELSE <<s[i]>> \o FenceFrom(s, i + 1)

FenceSpacing(s) == FenceFrom(s, 1)

postProcess(markdown) ==
    Trim(FenceSpacing(QuoteCleanup(HeadingFormat(ListItemSpacing(
        StripLines(CollapseNewlines(markdown)))))))

(***************************************************************************)
(* MarkdownConverter.preProcessHtml and MarkdownConverter.convert          *)
(***************************************************************************)

\* a sanitizer that removes nothing
KeepScripts(n) == n

\* element.remove() for every script, style, noscript under n
RECURSIVE RemoveScripts(_)
RemoveScripts(n) ==
    LET keep == SelectSeq(n.kids, LAMBDA c :
                    ~(IsElement(c)
                        /\ toLowerCase(c.name) \in {Tag.script, Tag.style, Tag.noscript}))
    IN [n EXCEPT !.kids = [k \in 1..Len(keep) |-> RemoveScripts(keep[k])]]

\* node.textContent.replace(/\u00A0/g, ' ') for every text node under n
RECURSIVE ReplaceNbsp(_)
ReplaceNbsp(n) ==
    IF n.type = "text"
    THEN [n EXCEPT !.text = [i \in 1..Len(n.text) |->
                                IF n.text[i] = "nbsp" THEN SP ELSE n.text[i]]]
    ELSE [n EXCEPT !.kids = [k \in 1..Len(n.kids) |-> ReplaceNbsp(n.kids[k])]]

\* the p:empty, div:empty elements with no child node are removed; the list
\* of elements is taken before any of them is removed
RECURSIVE RemoveEmpty(_)
RemoveEmpty(n) ==
    LET keep == SelectSeq(n.kids, LAMBDA c :
                    ~(IsElement(c) /\ toLowerCase(c.name) \in {Tag.p, Tag.div}
                        /\ c.kids = <<>>))
    IN [n EXCEPT !.kids = [k \in 1..Len(keep) |-> RemoveEmpty(keep[k])]]

\* MarkdownConverter.preProcessHtml
preProcessHtml(html) ==
    LET tempDiv == El(Tag.div, parseFragment(html))
    IN innerHTML(RemoveEmpty(ReplaceNbsp(RemoveScripts(tempDiv))))

\* a convert whose walker goes on after a replacement threw, taking '' for
\* its value
convertFromPartial(r) ==
    [op |-> "convert", status |-> "ok", markdown |-> postProcess(r.out),
     log |-> r.log, trace |-> <<"preProcessHtml", "turndown", "postProcess">>]

\* the rest of convert once turndown has returned r or has thrown
convertFrom(r) ==
    IF Thrown(r.log)
    THEN [op |-> "convert", status |-> "error", markdown |-> <<>>,
          log |-> UntilThrow(r.log), trace |-> <<"preProcessHtml", "turndown">>]
    ELSE [op |-> "convert", status |-> "ok", markdown |-> postProcess(r.out),
          log |-> r.log, trace |-> <<"preProcessHtml", "turndown", "postProcess">>]

\* a convert that tests the type of its input only
convertUnvalidated(rs, value) ==
    IF value.type # "string"
    THEN [op |-> "convert", status |-> "error", markdown |-> <<>>, log |-> <<>>,
          trace |-> <<>>]
    ELSE convertFrom(turndown(rs, preProcessHtml(value.html), <<>>))

\* MarkdownConverter.convert: the promise rejects ("error") when the input is
\* not a non-empty string, or when a replacement throws (the catch block
\* throws again); otherwise it resolves with the markdown. trace lists the
\* stages that were entered. (The metadata of the result, lengths and
\* timestamp, is not modelled.)
convert(rs, value) ==
    IF value.type # "string" \/ value.html = <<>>
    THEN [op |-> "convert", status |-> "error", markdown |-> <<>>, log |-> <<>>,
          trace |-> <<>>]
    ELSE convertFrom(turndown(rs, preProcessHtml(value.html), <<>>))

(***************************************************************************)
(* Registry scenario: a TurndownService is constructed; MarkdownConverter   *)
(* may register its custom rules, callers may register more rules, and      *)
(* findMatchingRule is called on nodes.                                     *)
(***************************************************************************)
MaxUserRules == 2

registryVars == <<rules, added, query>>
convVars == <<input, conv>>
normVars == <<md, once, twice>>

NoQuery ==
    [op |-> "none", node |-> Comment, filter |-> FOther, rule |-> NoRule,
     result |-> JSNull]

RegistryIdle == rules = <<>> /\ added = <<>> /\ query = NoQuery

NormIdle == md = <<>> /\ once = <<>> /\ twice = <<>>

\* the popup as it opens (popup.js:144-148), a background that has handled
\* no message, a content script that has converted nothing
NoPopup == [pc |-> "idle", currentStatus |-> "idle", loading |-> FALSE, shown |-> "none"]

\* what sendResponse was called with, if it was called
Response(success, error) == [sent |-> TRUE, success |-> success, error |-> error]

NoResponse == [sent |-> FALSE, success |-> FALSE, error |-> ""]

NoBackground ==
    [op |-> "none", status |-> "idle", converted |-> FALSE, saved |-> FALSE,
     stored |-> FALSE, notices |-> <<>>, response |-> NoResponse]

NoSelector == [op |-> "none", notices |-> <<>>, settled |-> "none", error |-> <<>>]

PipeIdle == popup = NoPopup /\ background = NoBackground /\ selector = NoSelector

\* new FileHandler() (part_002:247-250) and an empty storage
FileIdle == lastUsedMode = "new" /\ saveHistory = <<>> /\ saves = <<>>

DownloadIdle == downloads = <<>> /\ waits = <<>>

\* new NotificationManager() (part_000:204-213)
NotifIdle ==
    /\ notificationQueue = <<>>
    /\ isProcessing = FALSE
    /\ chains = <<>>
    /\ shownLog = [added |-> 0, shown |-> <<>>, cleared |-> {}]

\* new StatusManager() (part_000:391-395)
StatusIdle == currentStatus = "idle" /\ statusHistory = <<>> /\ statusCalls = 0

ExtIdle == PipeIdle /\ FileIdle /\ DownloadIdle /\ NotifIdle /\ StatusIdle

\* a JavaScript string holding HTML
JSString(html) == [type |-> "string", html |-> html]

NoConv == [op |-> "none", status |-> "none", markdown |-> <<>>, log |-> <<>>,
           trace |-> <<>>]

ConvIdle == input = JSString(<<>>) /\ conv = NoConv

\* rules a caller registers after initialization
UserRules ==
    { Rule("userImg", FString(toUpperCase(Tag.img))),
      Rule("userPre", FString(Tag.pre)),
      Rule("userNonEmpty", FFunction("childCount")),
      Rule("userOther", FOther),
      Rule("userMixed", FArray(<<FString(Tag.li), FFunction("preWithCode")>>)) }

txt == Text(<<"a">>)

\* nodes the registry is asked about
QueryNodes ==
    { El(Tag.img, <<>>), El(Tag.blockquote, <<txt>>), El(Tag.ul, <<>>),
      El(Tag.ol, <<El(Tag.li, <<txt>>)>>),
      El(Tag.pre, <<El(Tag.code, <<txt>>)>>),
      El(Tag.pre, <<El(Tag.span, <<El(Tag.code, <<txt>>)>>)>>),
      El(Tag.pre, <<txt>>), El(Tag.pre, <<>>),
      El(Tag.span, <<txt>>), El(Tag.span, <<>>), El(Tag.li, <<txt>>),
      El(Tag.p, <<txt>>), El(Tag.table, <<>>),
      XmlEl(Tag.pre, <<XmlEl(Tag.code, <<txt>>)>>),
      XmlEl(<<"P", "r", "e">>, <<>>) }

\* filters matchesFilter is asked about
QueryFilters ==
    { FString(Tag.pre), FString(toUpperCase(Tag.pre)), FString(<<"P", "r", "e">>),
      FString(Tag.p), FString(Tag.span), FString(<<>>),
      FArray(<<>>), FTags(<<Tag.ul, Tag.ol>>),
      FArray(<<FString(Tag.li), FFunction("preWithCode")>>),
      FArray(<<FArray(<<FString(toUpperCase(Tag.img))>>), FOther>>),
      FFunction("preWithCode"), FFunction("childCount"), FOther }

userAdds ==
    Len(added) - Len(DefaultRuleCalls)
        - (IF pc = "converter" THEN Len(CustomRuleCalls) ELSE 0)

\* new TurndownService(options): the default rules are registered
RegistryInit ==
    /\ rules = TurndownRules
    /\ added = DefaultRuleCalls
    /\ query = NoQuery
    /\ pc = "service"
    /\ ConvIdle
    /\ NormIdle
    /\ ExtIdle

\* MarkdownConverter.init, after the TurndownService is constructed
InitCustomRules ==
    /\ pc = "service"
    /\ rules = TurndownRules
    /\ rules' = addRules(rules, CustomRuleCalls)
    /\ added' = added \o CustomRuleCalls
    /\ query' = [NoQuery EXCEPT !.op = "initCustomRules"]
    /\ pc' = "converter"
    /\ UNCHANGED <<convVars, normVars, extVars>>

\* TurndownService.addRule called by a user of the converter
AddRule(rule) ==
    /\ pc \in {"service", "converter"}
    /\ userAdds < MaxUserRules
    /\ rules' = addRule(rules, rule)
    /\ added' = Append(added, rule)
    /\ query' = [NoQuery EXCEPT !.op = "addRule", !.rule = rule]
    /\ UNCHANGED <<pc, convVars, normVars, extVars>>

\* TurndownService.findMatchingRule(node)
FindMatchingRule(node) ==
    /\ pc \in {"service", "converter"}
    /\ query' = [op |-> "find", node |-> node, filter |-> FOther,
                 rule |-> findMatchingRule(rules, node), result |-> JSNull]
    /\ UNCHANGED <<rules, added, pc, convVars, normVars, extVars>>

\* TurndownService.matchesFilter(node, filter)
MatchesFilter(node, filter) ==
    /\ pc \in {"service", "converter"}
    /\ query' = [op |-> "match", node |-> node, filter |-> filter,
                 rule |-> NoRule, result |-> matchesFilter(node, filter)]
    /\ UNCHANGED <<rules, added, pc, convVars, normVars, extVars>>

RegistryNext ==
    \/ InitCustomRules
    \/ \E rule \in UserRules : AddRule(rule)
    \/ \E node \in QueryNodes : FindMatchingRule(node)

SpecRegistry == RegistryInit /\ [][RegistryNext]_vars

\* Filter scenario: matchesFilter is called on a constructed service
FilterNext ==
    \E node \in QueryNodes, filter \in QueryFilters : MatchesFilter(node, filter)

SpecFilter == RegistryInit /\ [][FilterNext]_vars

(***************************************************************************)
(* Inputs of the normalizer                                                *)
(***************************************************************************)
MaxPieces == 4
MaxGap == 3

Pieces == {<<"a">>, <<SP>>, <<NL>>, Fence, <<"#">>, <<">">>}

\* every string made of at most MaxPieces pieces
PieceStrings ==
    {Flatten(ps) : ps \in UNION {[1..n -> Pieces] : n \in 0..MaxPieces}}

\* text, a gap of newlines, a fenced block, a gap of newlines, text
FenceBodies ==
    {<<>>, <<"a">>, <<NL, "a", NL>>, <<NL, SP, SP, "a", NL>>,
     <<NL, "a", NL, NL, NL, "a", NL>>, <<NL, "a", SP, NL>>}

FencedDocs ==
    {t1 \o Repeat(NL, g1) \o Fence \o b \o Fence \o Repeat(NL, g2) \o t2 :
        t1 \in {<<>>, <<"a">>}, t2 \in {<<>>, <<"a">>},
        g1 \in 0..MaxGap, g2 \in 0..MaxGap, b \in FenceBodies}

NormInputs == PieceStrings \cup FencedDocs

(***************************************************************************)
(* Normalizer scenario: postProcess applied once, then to its own output   *)
(***************************************************************************)
NormInit ==
    /\ md \in NormInputs
    /\ once = <<>>
    /\ twice = <<>>
    /\ pc = "norm"
    /\ RegistryIdle
    /\ ConvIdle
    /\ ExtIdle

PostProcess ==
    /\ pc = "norm"
    /\ once' = postProcess(md)
    /\ pc' = "norm1"
    /\ UNCHANGED <<md, twice, registryVars, convVars, extVars>>

PostProcessAgain ==
    /\ pc = "norm1"
    /\ twice' = postProcess(once)
    /\ pc' = "norm2"
    /\ UNCHANGED <<md, once, registryVars, convVars, extVars>>

NormNext == PostProcess \/ PostProcessAgain

SpecNorm == NormInit /\ [][NormNext]_vars

(***************************************************************************)
(* Conversion scenario: a TurndownService, or a MarkdownConverter, is       *)
(* constructed and one HTML fragment is converted: by turndown() on the    *)
(* service, or by convert() on the converter.                              *)
(***************************************************************************)
MaxItems == 2
MaxKids == 2

ta == Text(<<"a">>)
tb == Text(<<"b">>)
tc == Text(<<"c">>)

\* li elements: empty, text, white space only, two lines, with a nested list
ListItems ==
    { El(Tag.li, <<>>), El(Tag.li, <<ta>>), El(Tag.li, <<tb>>),
      El(Tag.li, <<Text(<<SP>>)>>),
      El(Tag.li, <<ta, El(Tag.br, <<>>), tb>>),
      El(Tag.li, <<tb, El(Tag.ul, <<El(Tag.li, <<tc>>)>>)>>),
      El(Tag.li, <<El(Tag.ol, <<El(Tag.li, <<tc>>)>>)>>) }

StartFive == {<<"start", <<"5">>>>}

\* ul and ol elements with 1..MaxItems items; ol with and without start="5"
ListDocs ==
    { <<ElA(t[1], t[2], items)>> :
        t \in {<<Tag.ul, {}>>, <<Tag.ol, {}>>, <<Tag.ol, StartFive>>},
        items \in UNION {[1..n -> ListItems] : n \in 1..MaxItems} }

LanguageJs == {<<"class", LanguagePrefix \o <<"j", "s">>>>}

\* text of code elements: plain, with markup characters, indented, with a
\* trailing space, with a run of blank lines, starting like a heading
CodeTexts ==
    { <<"a">>, <<"1", SP, "<", SP, "2">>, <<SP, SP, "a">>, <<"a", NL, SP, SP, "b">>,
      <<"a", SP, NL, "b">>, <<"a", NL, NL, NL, "b">>, <<"#", NL, "a">>, <<"a", NL>> }

CodeDocs ==
    { before \o <<El(Tag.pre, <<ElA(Tag.code, attrs, <<Text(t)>>)>>)>> \o after :
        before \in {<<>>, <<El(Tag.p, <<ta>>)>>}, after \in {<<>>, <<tb>>},
        attrs \in {{}, LanguageJs}, t \in CodeTexts }
      \cup { <<El(Tag.pre, <<Text(t)>>)>> : t \in {<<"a">>, <<NL, "a">>} }

\* children of an element that no rule matches
PassKids ==
    { ta, Text(<<SP, "b">>), Comment, El(Tag.b, <<ta>>), El(Tag.span, <<tb>>),
      El(Tag.span, <<>>), El(Tag.code, <<tc>>) }

PassDocs ==
    { <<El(tag, kids)>> :
        tag \in {Tag.span, Tag.div},
        kids \in UNION {[1..n -> PassKids] : n \in 0..MaxKids} }

\* fragments for the sanitizer: scripts, no-break spaces, empty blocks
SanitizerDocs ==
    { <<El(Tag.script, <<tc>>), ta>>,
      <<El(Tag.div, <<El(Tag.style, <<tc>>)>>), tb>>,
      <<El(Tag.p, <<>>), ta>>,
      <<El(Tag.p, <<Comment>>), ta>>,
      <<Text(<<"a", "nbsp", "b">>)>>,
      <<El(Tag.blockquote, <<El(Tag.p, <<ta>>), El(Tag.p, <<tb>>)>>)>>,
      <<El(Tag.h2, <<ta>>), El(Tag.p, <<El(Tag.em, <<tb>>)>>)>> }

\* a fragment of adjacent text nodes is one text node once parsed
HtmlOf(fragment) == MergeText(SerializeAll(fragment))

ConvDocs == ListDocs \cup CodeDocs \cup PassDocs \cup SanitizerDocs

ConvInputs == {JSString(HtmlOf(d)) : d \in ConvDocs}

\* new TurndownService(), or new MarkdownConverter(); the HTML to convert
ConvInit ==
    /\ \/ rules = TurndownRules /\ added = DefaultRuleCalls /\ pc = "service"
       \/ /\ rules = ConverterRules
          /\ added = DefaultRuleCalls \o CustomRuleCalls
          /\ pc = "converter"
    /\ query = NoQuery
    /\ input \in ConvInputs
    /\ conv = NoConv
    /\ NormIdle
    /\ ExtIdle

\* what a turndown(input) call gives its caller: the string, or the error
\* of the replacement that threw
turndownFrom(r) ==
    IF Thrown(r.log)
    THEN [op |-> "turndown", status |-> "error", markdown |-> <<>>,
          log |-> UntilThrow(r.log), trace |-> <<"turndown">>]
    ELSE [op |-> "turndown", status |-> "ok", markdown |-> r.out,
          log |-> r.log, trace |-> <<"turndown">>]

\* TurndownService.turndown(input)
Turndown ==
    /\ pc \in {"service", "converter"}
    /\ conv.op = "none"
    /\ IF input.type = "string"
       THEN conv' = turndownFrom(turndown(rules, input.html, <<>>))
       ELSE \* the value is taken for a node: reading nodeType of null or
            \* undefined throws; any other value has no nodeType and gives ''
            conv' = [op |-> "turndown",
                     status |-> IF input.type \in {"null", "undefined"}
                                THEN "error" ELSE "ok",
                     markdown |-> <<>>, log |-> <<>>, trace |-> <<"turndown">>]
    /\ UNCHANGED <<rules, added, query, input, pc, normVars, extVars>>

\* MarkdownConverter.convert(html)
Convert ==
    /\ pc = "converter"
    /\ conv.op = "none"
    /\ conv' = convert(rules, input)
    /\ UNCHANGED <<rules, added, query, input, pc, normVars, extVars>>

ConvNext == Turndown \/ Convert

SpecConvert == ConvInit /\ [][ConvNext]_vars

(***************************************************************************)
(* Element scenario: a MarkdownConverter is constructed, a caller may       *)
(* register a rule whose replacement throws, and one value is converted:    *)
(* tables, inline elements, links, quotes, scripts, or a value that is not  *)
(* a non-empty string.                                                      *)
(***************************************************************************)
MaxRows == 2
MaxDepth == 3

\* text of table cells: plain, padded, with a pipe, with a backslash before a
\* pipe, with a line break
CellA == <<"A">>
CellPadded == <<SP, "1", SP>>
CellPipe == <<"a", "|", "b">>
CellBackslash == <<"a", "\\", "|", "b">>
CellTwoLines == <<"a", NL, "b">>

TableRows ==
    { El(Tag.tr, <<El(Tag.th, <<Text(CellA)>>), El(Tag.th, <<Text(<<"B">>)>>)>>),
      El(Tag.tr, <<El(Tag.td, <<Text(CellPadded)>>), El(Tag.td, <<Text(<<"2">>)>>)>>),
      El(Tag.tr, <<El(Tag.td, <<Text(CellPipe)>>)>>),
      El(Tag.tr, <<El(Tag.td, <<Text(CellBackslash)>>), El(Tag.td, <<>>)>>),
      El(Tag.tr, <<El(Tag.td, <<Text(CellTwoLines)>>)>>),
      El(Tag.tr, <<>>) }

\* tables of 0..MaxRows rows, the first row in a thead or not
TableDocs ==
    LET rowSeqs == UNION {[1..n -> TableRows] : n \in 0..MaxRows}
    IN { <<El(Tag.table, rows)>> : rows \in rowSeqs }
         \cup { <<El(Tag.table, <<El(Tag.thead, <<Head(rows)>>)>> \o Tail(rows))>> :
                  rows \in rowSeqs \ {<<>>} }

\* strong, b, em, i with content that is padded, blank or empty
InlineKids ==
    { <<ta>>, <<Text(<<SP, "a">>)>>, <<Text(<<"a", SP>>)>>, <<Text(<<SP>>)>>, <<>>,
      <<Text(<<SP, "a", SP, "b", SP>>)>> }

InlineDocs ==
    { before \o <<El(tag, kids)>> :
        before \in {<<>>, <<tb>>}, tag \in {Tag.strong, Tag.b, Tag.em, Tag.i},
        kids \in InlineKids }

\* a elements with and without href and title
LinkAttrs ==
    { h \cup t : h \in {{}, {<<"href", <<>>>>}, {<<"href", <<"u">>>>}},
                 t \in {{}, {<<"title", <<>>>>}, {<<"title", <<"t">>>>}} }

LinkDocs ==
    { <<ElA(Tag.a, attrs, kids)>> :
        attrs \in LinkAttrs, kids \in {<<ta>>, <<El(Tag.b, <<tb>>)>>, <<>>} }

\* a blockquote nested d deep around the innermost child nodes
RECURSIVE Quote(_, _)
Quote(d, kids) ==
    IF d <= 1 THEN El(Tag.blockquote, kids)
    ELSE El(Tag.blockquote, <<Quote(d - 1, kids)>>)

QuoteKids ==
    { <<ta>>, <<El(Tag.p, <<ta>>), El(Tag.p, <<tb>>)>>, <<Text(<<SP, "a", SP>>)>>,
      <<ta, El(Tag.br, <<>>), tb>>, <<>> }

QuoteDocs ==
    { <<Quote(d, kids)>> : d \in 1..MaxDepth, kids \in QuoteKids }
      \cup { <<El(Tag.blockquote, <<tb, Quote(1, kids)>>)>> : kids \in QuoteKids }

\* script, style and noscript elements at several places; their text is "c"
ScriptDocs ==
    { <<El(Tag.script, <<tc>>), ta>>,
      <<El(Tag.script, <<tc>>)>>,
      <<El(Tag.div, <<El(Tag.style, <<tc>>)>>), tb>>,
      <<El(Tag.noscript, <<El(Tag.p, <<tc>>)>>), ta>>,
      <<El(Tag.p, <<ta, El(Tag.script, <<tc>>), tb>>)>>,
      <<El(Tag.blockquote, <<El(Tag.noscript, <<El(Tag.b, <<tc>>)>>), ta>>)>>,
      <<El(Tag.ul, <<El(Tag.li, <<ta, El(Tag.style, <<tc>>)>>)>>)>>,
      <<El(Tag.table, <<El(Tag.tr, <<El(Tag.td, <<ta, El(Tag.script, <<tc>>)>>)>>)>>)>> }

\* span elements, which the rule of the caller matches
SpanDocs ==
    { <<El(Tag.p, <<ta, El(Tag.span, <<tb>>)>>)>>,
      <<El(Tag.span, <<ta>>), tb>>,
      <<El(Tag.b, <<ta>>), El(Tag.span, <<>>), El(Tag.i, <<tb>>)>>,
      <<El(Tag.ul, <<El(Tag.li, <<ta>>), El(Tag.li, <<El(Tag.span, <<tb>>)>>)>>)>> }

\* values that are not strings (typeof, or null), and the empty string
NonStrings ==
    { [type |-> t, html |-> <<>>] :
        t \in {"undefined", "null", "number", "boolean", "object"} }

ElementDocs ==
    TableDocs \cup InlineDocs \cup LinkDocs \cup QuoteDocs \cup ScriptDocs \cup SpanDocs

ElementInputs ==
    {JSString(HtmlOf(d)) : d \in ElementDocs} \cup NonStrings \cup {JSString(<<>>)}

\* the rule a caller adds with converter.addRule; its replacement throws
ThrowingRule == Rule("userThrows", FString(Tag.span))

\* new MarkdownConverter(), then at most one addRule of the caller
ElementsInit ==
    /\ \/ rules = ConverterRules /\ added = DefaultRuleCalls \o CustomRuleCalls
       \/ /\ rules = addRule(ConverterRules, ThrowingRule)
          /\ added = DefaultRuleCalls \o CustomRuleCalls \o <<ThrowingRule>>
    /\ pc = "converter"
    /\ query = NoQuery
    /\ input \in ElementInputs
    /\ conv = NoConv
    /\ NormIdle
    /\ ExtIdle

SpecElements == ElementsInit /\ [][ConvNext]_vars

(***************************************************************************)
(* Construction scenario: new TurndownService(options) with the options a  *)
(* caller passes, or new MarkdownConverter(), which passes its own.        *)
(***************************************************************************)

\* a || b for strings: '' and undefined (written "") are falsy
Or(a, b) == IF a = "" THEN b ELSE a

\* this.options as the constructor of TurndownService computes it (br and hr
\* left aside)
TurndownOptions(passed) ==
    [headingStyle |-> Or(passed.headingStyle, "atx"),
     codeBlockStyle |-> Or(passed.codeBlockStyle, "fenced"),
     emDelimiter |-> Or(passed.emDelimiter, "_"),
     strongDelimiter |-> Or(passed.strongDelimiter, "**"),
     linkStyle |-> Or(passed.linkStyle, "inlineLink")]

\* the options MarkdownConverter.init passes
InitOptions ==
    [headingStyle |-> "atx", codeBlockStyle |-> "fenced", emDelimiter |-> "_",
     strongDelimiter |-> "**", linkStyle |-> "inlineLink"]

\* the options a caller may pass; "" is an option left out
PassedOptions ==
    [headingStyle : {"", "atx", "setext"},
     codeBlockStyle : {"", "fenced", "indented"},
     emDelimiter : {"", "_", "*", "~"},
     strongDelimiter : {"", "**", "__", "~~"},
     linkStyle : {"", "inlineLink", "referenced"}]

OptionsInit ==
    /\ pc = "new"
    /\ rules = <<>>
    /\ added = <<>>
    /\ query = NoQuery
    /\ input \in PassedOptions
    /\ conv = NoConv
    /\ NormIdle
    /\ ExtIdle

\* new TurndownService(input): no statement of the constructor throws
NewTurndownService ==
    /\ pc = "new"
    /\ pc' = "service"
    /\ rules' = TurndownRules
    /\ added' = DefaultRuleCalls
    /\ query' = [op |-> "construct", passed |-> input, status |-> "ok",
                 options |-> TurndownOptions(input)]
    /\ UNCHANGED <<input, conv, normVars, extVars>>

\* new MarkdownConverter(): TurndownService is defined in the pages that load
\* the converter
NewMarkdownConverter ==
    /\ pc = "new"
    /\ pc' = "converter"
    /\ rules' = ConverterRules
    /\ added' = DefaultRuleCalls \o CustomRuleCalls
    /\ query' = [op |-> "construct", passed |-> InitOptions, status |-> "ok",
                 options |-> TurndownOptions(InitOptions)]
    /\ UNCHANGED <<input, conv, normVars, extVars>>

OptionsNext == NewTurndownService \/ NewMarkdownConverter

SpecOptions == OptionsInit /\ [][OptionsNext]_vars

(***************************************************************************)
(* Session scenario: one MarkdownConverter serves a run of convert() and    *)
(* turndown() calls, and its user registers rules between the calls.        *)
(***************************************************************************)
\* rules the user registers: one whose replacement throws, one whose filter
\* matches nothing, one that re-registers the name of a default rule
SessionRules ==
    {ThrowingRule, Rule("userOther", FOther), Rule("paragraph", FString(Tag.div))}

SessionInputs ==
    { JSString(HtmlOf(<<El(Tag.span, <<ta>>)>>)),
      JSString(HtmlOf(<<El(Tag.div, <<tb>>)>>)),
      JSString(HtmlOf(<<El(Tag.ul, <<El(Tag.li, <<ta>>)>>)>>)),
      JSString(HtmlOf(<<El(Tag.p, <<El(Tag.span, <<tc>>)>>)>>)),
      JSString(<<>>), [type |-> "null", html |-> <<>>] }

\* new MarkdownConverter()
SessionInit ==
    /\ rules = ConverterRules
    /\ added = DefaultRuleCalls \o CustomRuleCalls
    /\ pc = "converter"
    /\ query = NoQuery
    /\ ConvIdle
    /\ NormIdle
    /\ ExtIdle

\* MarkdownConverter.convert(value), on a converter that has served calls
ConvertValue(value) ==
    /\ pc = "converter"
    /\ input' = value
    /\ conv' = convert(rules, value)
    /\ UNCHANGED <<rules, added, query, pc, normVars, extVars>>

\* TurndownService.turndown(html), on a converter that has served calls
TurndownValue(value) ==
    /\ pc = "converter"
    /\ value.type = "string"
    /\ input' = value
    /\ conv' = turndownFrom(turndown(rules, value.html, <<>>))
    /\ UNCHANGED <<rules, added, query, pc, normVars, extVars>>

SessionNext ==
    \/ \E value \in SessionInputs : ConvertValue(value)
    \/ \E value \in SessionInputs : TurndownValue(value)
    \/ \E rule \in SessionRules : AddRule(rule)

SpecSession == SessionInit /\ [][SessionNext]_vars

(***************************************************************************)
(* The extension around the converter: the popup asks the content script    *)
(* for the selection and hands it to the background, which has the content *)
(* script convert it, saves the file, and answers the popup.               *)
(* Error messages are sequences: the prefixes put in front by each catch    *)
(* block, outermost first, then the message of the error first thrown.      *)
(***************************************************************************)
\* JavaScript truthiness of a value handed over as HTML
TruthyValue(value) ==
    IF value.type = "string" THEN value.html # <<>>
    ELSE value.type \notin {"undefined", "null"}

\* ContentSelector.handleMarkdownConversion(selectedData), given whether
\* window.inPageNotification exists and whether TurndownService is defined.
\* convert() is an async function and is called without await: the call
\* returns a promise at once, the success notification follows, and the
\* promise returned to the caller settles as the promise of convert() does.
handleMarkdownConversionFrom(c, data, notifier, canConstruct) ==
    LET note(kind) == IF notifier THEN <<kind>> ELSE <<>>
    IN IF data.null \/ ~canConstruct
       THEN \* reading html of null, or the constructor, throws inside try
            [op |-> "convertToMarkdown", notices |-> note("info") \o note("error"),
             settled |-> "rejected",
             error |-> <<"Markdown conversion failed",
                         IF data.null THEN "TypeError" ELSE "init failed">>]
       ELSE [op |-> "convertToMarkdown", notices |-> note("info") \o note("success"),
             settled |-> IF c.status = "ok" THEN "resolved" ELSE "rejected",
             error |-> IF c.status = "ok" THEN <<>>
                       ELSE <<"conversion failed", "convert error">>]

\* the conversion a content script runs on the selection it is handed
ConvOf(data) ==
    IF data.null THEN NoConv ELSE convert(ConverterRules, data.html)

\* WebtoMDBackground.validateSelectedContent
validateSelectedContent(data) ==
    /\ ~data.null
    /\ Trim(data.text) # <<>>
    /\ TruthyValue(data.html)
    /\ data.url

\* WebtoMDBackground.processSelectedContent(selectedData, tab, saveMode):
\* every step runs inside one try block whose catch sets status 'error',
\* shows the error and returns. senderTab: the tab argument is defined;
\* reach: what sendMessage to the active tab's content script met;
\* settled: how handleMarkdownConversion settled there; saveOk, storeOk:
\* whether fileHandler.saveContent and chrome.storage.local.set succeeded.
processSelectedContent(data, senderTab, reach, settled, saveOk, storeOk) ==
    LET failed(converted, saved, shown) ==
            [op |-> "processSelectedContent", status |-> "error",
             converted |-> converted, saved |-> saved, stored |-> FALSE,
             notices |-> shown \o <<"error">>, response |-> NoResponse]
    IN IF ~senderTab THEN failed(FALSE, FALSE, <<>>)
       ELSE IF ~validateSelectedContent(data) THEN failed(FALSE, FALSE, <<>>)
       ELSE IF reach # "delivered" \/ settled # "resolved"
            THEN failed(FALSE, FALSE, <<"info">>)
       ELSE IF ~saveOk THEN failed(TRUE, FALSE, <<"info", "info">>)
       ELSE IF ~storeOk THEN failed(TRUE, TRUE, <<"info", "info">>)
       ELSE [op |-> "processSelectedContent", status |-> "completed",
             converted |-> TRUE, saved |-> TRUE, stored |-> TRUE,
             notices |-> <<"info", "info", "success">>, response |-> NoResponse]

\* WebtoMDBackground.handleMessage, case 'processSelectedContent': the call
\* is awaited and, as it returned, sendResponse({success: true}) follows
handleMessage(done) == [done EXCEPT !.response = Response(TRUE, "")]

\* selections: a good one, none, blank text, no HTML, HTML that is not a
\* string, no page URL
SelectedData ==
    LET good == [null |-> FALSE, text |-> <<"a">>,
                 html |-> JSString(HtmlOf(<<El(Tag.p, <<ta>>)>>)), url |-> TRUE]
    IN { good, [good EXCEPT !.null = TRUE], [good EXCEPT !.text = <<SP>>],
         [good EXCEPT !.html = JSString(<<>>)],
         [good EXCEPT !.html = [type |-> "object", html |-> <<>>]],
         [good EXCEPT !.html = JSString(HtmlOf(<<El(Tag.em, <<tb>>)>>))],
         [good EXCEPT !.url = FALSE] }

\* the popup is opened on a page whose content script holds a selection
PipeInit ==
    /\ PipeIdle
    /\ pc = "extension"
    /\ RegistryIdle
    /\ conv = NoConv
    /\ input \in {d.html : d \in SelectedData}
    /\ NormIdle
    /\ FileIdle /\ DownloadIdle /\ NotifIdle /\ StatusIdle

\* WebtoMDPopup.handleSave(mode), up to the message to the content script
HandleSave(tabFound) ==
    /\ pc = "extension"
    /\ popup.pc = "idle"
    /\ popup' = IF tabFound
                THEN [pc |-> "asked", currentStatus |-> "getting-content",
                      loading |-> TRUE, shown |-> "info"]
                ELSE \* catch block: no active tab
                     [pc |-> "ended", currentStatus |-> "error",
                      loading |-> FALSE, shown |-> "error"]
    /\ UNCHANGED <<registryVars, convVars, normVars, background, selector, pc,
                   fileVars, downloadVars, notifVars, statusVars>>

\* the callback of the message to the content script (popup.js:208-242)
SelectionResponse(outcome) ==
    /\ popup.pc = "asked"
    /\ popup' =
         CASE outcome = "lastError" ->
                [popup EXCEPT !.pc = "ended", !.shown = "error", !.loading = FALSE]
           [] outcome = "success" ->
                [popup EXCEPT !.pc = "sent", !.currentStatus = "processing"]
           [] outcome = "failure" ->
                [pc |-> "ended", currentStatus |-> "error", loading |-> FALSE,
                 shown |-> "error"]
    /\ UNCHANGED <<registryVars, convVars, normVars, background, selector, pc,
                   fileVars, downloadVars, notifVars, statusVars>>

\* the background handles the popup's 'processSelectedContent' message; the
\* content script of the active tab, when reached, converts the selection
HandleMessage(data, senderTab, reach, notifier, saveOk, storeOk) ==
    /\ popup.pc = "sent"
    /\ background.op = "none"
    /\ data.html = input
    /\ conv' = IF senderTab /\ validateSelectedContent(data) /\ reach = "delivered"
               THEN ConvOf(data) ELSE conv
    /\ selector' = IF senderTab /\ validateSelectedContent(data) /\ reach = "delivered"
                   THEN handleMarkdownConversionFrom(conv', data, notifier, TRUE)
                   ELSE selector
    /\ background' =
          handleMessage(processSelectedContent(data, senderTab, reach,
                                               selector'.settled, saveOk, storeOk))
    /\ UNCHANGED <<registryVars, input, normVars, popup, pc,
                   fileVars, downloadVars, notifVars, statusVars>>

\* the callback of the message to the background (popup.js:224-236);
\* arrived: the response reached the popup
BackgroundResponse(arrived) ==
    /\ popup.pc = "sent"
    /\ background.response.sent
    /\ popup' =
         IF arrived /\ background.response.success
         THEN [pc |-> "ended", currentStatus |-> "completed", loading |-> FALSE,
               shown |-> "success"]
         ELSE [pc |-> "ended", currentStatus |-> "error", loading |-> FALSE,
               shown |-> "error"]
    /\ UNCHANGED <<registryVars, convVars, normVars, background, selector, pc,
                   fileVars, downloadVars, notifVars, statusVars>>

\* the content script handles a 'convertToMarkdown' message of any sender
HandleMarkdownConversion(data, notifier, canConstruct) ==
    /\ pc = "extension"
    /\ selector.op = "none"
    /\ data.html = input
    /\ conv' = IF canConstruct THEN ConvOf(data) ELSE NoConv
    /\ selector' = handleMarkdownConversionFrom(conv', data, notifier, canConstruct)
    /\ UNCHANGED <<registryVars, input, normVars, popup, background, pc,
                   fileVars, downloadVars, notifVars, statusVars>>

PipeNext ==
    \/ \E tabFound \in BOOLEAN : HandleSave(tabFound)
    \/ \E outcome \in {"lastError", "success", "failure"} : SelectionResponse(outcome)
    \/ \E data \in SelectedData, senderTab, notifier, saveOk, storeOk \in BOOLEAN,
          reach \in {"noTab", "lastError", "delivered"} :
            HandleMessage(data, senderTab, reach, notifier, saveOk, storeOk)
    \/ \E arrived \in BOOLEAN : BackgroundResponse(arrived)
    \/ \E data \in SelectedData, notifier, canConstruct \in BOOLEAN :
            HandleMarkdownConversion(data, notifier, canConstruct)

SpecPipe == PipeInit /\ [][PipeNext]_vars

(***************************************************************************)
(* Save scenario: saveContent calls on one FileHandler. Each await of the   *)
(* code ends a step, so calls in flight together interleave at the awaits:  *)
(* the save operation (saveNewFile / appendToFile), storage.local.get and   *)
(* storage.local.set. A history record is the number of the call it is of;  *)
(* 0 stands for a record of an earlier session.                             *)
(***************************************************************************)
MaxSaves == 2

\* const maxHistory = 50 (part_002:474)
maxHistory == 50

\* a stored history of n records of earlier sessions
OldHistory(n) == [k \in 1..n |-> 0]

\* const { mode = this.lastUsedMode } = options; the mode test of saveContent.
\* requested "" stands for options without mode.
startSave(last, requested) ==
    LET mode == IF requested = "" THEN last ELSE requested
    IN [pc |-> IF mode \in {"new", "append"} THEN "saving" ELSE "rejected",
        mode |-> mode, read |-> <<>>, wrote |-> FALSE]

\* mutant: lastUsedMode is written before the save operation has ended
settleSaveEager(save, last, ok) ==
    [save |-> [save EXCEPT !.pc = IF ok THEN "reading" ELSE "rejected"],
     lastUsedMode |-> save.mode]

\* saveContent, once saveNewFile / appendToFile has settled: on success
\* this.lastUsedMode = mode and saveSaveHistory is entered; on failure the
\* catch block rejects with the wrapped error
settleSave(save, last, ok) ==
    [save |-> [save EXCEPT !.pc = IF ok THEN "reading" ELSE "rejected"],
     lastUsedMode |-> IF ok THEN save.mode ELSE last]

\* saveSaveHistory: unshift the record, splice(maxHistory)
withRecord(history, record) ==
    LET all == <<record>> \o history
    IN IF Len(all) > maxHistory THEN SubSeq(all, 1, maxHistory) ELSE all

notFileVars ==
    <<registryVars, convVars, normVars, pipeVars, downloadVars, notifVars,
      statusVars, pc>>

\* new FileHandler(); the storage holds the history of earlier sessions
SavesInit ==
    /\ lastUsedMode = "new"
    /\ saveHistory \in {OldHistory(0), OldHistory(maxHistory - 1)}
    /\ saves = <<>>
    /\ pc = "files"
    /\ RegistryIdle /\ ConvIdle /\ NormIdle
    /\ PipeIdle /\ DownloadIdle /\ NotifIdle /\ StatusIdle

\* FileHandler.saveContent(markdown, options, metadata) is called
SaveContent(requested) ==
    /\ pc = "files"
    /\ Len(saves) < MaxSaves
    /\ saves' = Append(saves, startSave(lastUsedMode, requested))
    /\ UNCHANGED <<lastUsedMode, saveHistory, notFileVars>>

\* the save operation of call i settles
OperationSettles(i, ok) ==
    /\ saves[i].pc = "saving"
    /\ saves' = [saves EXCEPT ![i] = settleSave(saves[i], lastUsedMode, ok).save]
    /\ lastUsedMode' = settleSave(saves[i], lastUsedMode, ok).lastUsedMode
    /\ UNCHANGED <<saveHistory, notFileVars>>

\* saveSaveHistory of call i: chrome.storage.local.get settles; a failure
\* is caught and logged, and saveContent resolves
GetHistory(i, ok) ==
    /\ saves[i].pc = "reading"
    /\ saves' = [saves EXCEPT ![i] =
                    IF ok THEN [@ EXCEPT !.pc = "writing", !.read = saveHistory]
                    ELSE [@ EXCEPT !.pc = "resolved"]]
    /\ UNCHANGED <<lastUsedMode, saveHistory, notFileVars>>

\* saveSaveHistory of call i: chrome.storage.local.set settles
SetHistory(i, ok) ==
    /\ saves[i].pc = "writing"
    /\ saveHistory' = IF ok THEN withRecord(saves[i].read, i) ELSE saveHistory
    /\ saves' = [saves EXCEPT ![i] = [@ EXCEPT !.pc = "resolved", !.wrote = ok]]
    /\ UNCHANGED <<lastUsedMode, notFileVars>>

SavesNext ==
    \/ \E requested \in {"", "new", "append", "overwrite"} : SaveContent(requested)
    \/ \E i \in 1..Len(saves), ok \in BOOLEAN : OperationSettles(i, ok)
    \/ \E i \in 1..Len(saves), ok \in BOOLEAN : GetHistory(i, ok)
    \/ \E i \in 1..Len(saves), ok \in BOOLEAN : SetHistory(i, ok)

SpecSaves == SavesInit /\ [][SavesNext]_vars

(***************************************************************************)
(* Download scenario: waitForDownloadComplete(downloadId) polls the state   *)
(* of a download that the browser carries on with. A step is one callback:  *)
(* that of chrome.downloads.search, or that of the 100 ms timer.            *)
(***************************************************************************)
MaxDownloads == 2

NoWait == [pc |-> "none", settles |-> 0, saw |-> "", waited |-> FALSE]

\* mutant: case 'complete' has no break and falls through to 'interrupted'
checkDownloadFallThrough(lastError, found) ==
    IF lastError THEN [pc |-> "rejected", calls |-> 1, saw |-> "lookup error"]
    ELSE IF found = "missing" THEN [pc |-> "rejected", calls |-> 1, saw |-> found]
    ELSE CASE found = "complete" -> [pc |-> "resolved", calls |-> 2, saw |-> found]
           [] found = "interrupted" -> [pc |-> "rejected", calls |-> 1, saw |-> found]
           [] OTHER -> [pc |-> "timer", calls |-> 0, saw |-> found]

\* the callback of chrome.downloads.search inside checkDownload: found is
\* the state of downloads[0], or "missing" when the list is empty; the
\* result tells how the promise is settled, or that the timer is set again
checkDownload(lastError, found) ==
    IF lastError THEN [pc |-> "rejected", calls |-> 1, saw |-> "lookup error"]
    ELSE IF found = "missing" THEN [pc |-> "rejected", calls |-> 1, saw |-> found]
    ELSE CASE found = "complete" -> [pc |-> "resolved", calls |-> 1, saw |-> found]
           [] found = "interrupted" -> [pc |-> "rejected", calls |-> 1, saw |-> found]
           [] found = "in_progress" -> [pc |-> "timer", calls |-> 0, saw |-> found]
           [] OTHER -> [pc |-> "timer", calls |-> 0, saw |-> found]

notDownloadVars ==
    <<registryVars, convVars, normVars, pipeVars, fileVars, notifVars, statusVars, pc>>

\* chrome.downloads.download has started each download
DownloadsInit ==
    /\ downloads = [id \in 1..MaxDownloads |-> "in_progress"]
    /\ waits = [id \in 1..MaxDownloads |-> NoWait]
    /\ pc = "downloads"
    /\ RegistryIdle /\ ConvIdle /\ NormIdle
    /\ PipeIdle /\ FileIdle /\ NotifIdle /\ StatusIdle

\* FileHandler.waitForDownloadComplete(id): checkDownload() issues a search
WaitForDownloadComplete(id) ==
    /\ waits[id].pc = "none"
    /\ waits' = [waits EXCEPT ![id].pc = "searching"]
    /\ UNCHANGED <<downloads, notDownloadVars>>

\* the callback of chrome.downloads.search runs
SearchCallback(id, lastError) ==
    /\ waits[id].pc = "searching"
    /\ LET r == checkDownload(lastError, downloads[id])
       IN waits' = [waits EXCEPT ![id] =
                       [pc |-> r.pc, settles |-> @.settles + r.calls, saw |-> r.saw,
                        waited |-> @.waited \/ r.pc = "timer"]]
    /\ UNCHANGED <<downloads, notDownloadVars>>

\* setTimeout(checkDownload, 100) fires: checkDownload() issues a search
TimerFires(id) ==
    /\ waits[id].pc = "timer"
    /\ waits' = [waits EXCEPT ![id].pc = "searching"]
    /\ UNCHANGED <<downloads, notDownloadVars>>

\* the browser: a download in progress completes or is interrupted
DownloadEnds(id, state) ==
    /\ downloads[id] = "in_progress"
    /\ downloads' = [downloads EXCEPT ![id] = state]
    /\ UNCHANGED <<waits, notDownloadVars>>

\* the browser: a download is erased from the download history
DownloadErased(id) ==
    /\ downloads[id] # "missing"
    /\ downloads' = [downloads EXCEPT ![id] = "missing"]
    /\ UNCHANGED <<waits, notDownloadVars>>

DownloadsNext ==
    \/ \E id \in 1..MaxDownloads : WaitForDownloadComplete(id)
    \/ \E id \in 1..MaxDownloads, lastError \in BOOLEAN : SearchCallback(id, lastError)
    \/ \E id \in 1..MaxDownloads : TimerFires(id)
    \/ \E id \in 1..MaxDownloads, state \in {"complete", "interrupted"} :
            DownloadEnds(id, state)
    \/ \E id \in 1..MaxDownloads : DownloadErased(id)

\* the event loop runs every callback that is due: the search callback of a
\* search issued, the timer callback of a timer set
SpecDownloads ==
    /\ DownloadsInit /\ [][DownloadsNext]_vars
    /\ \A id \in 1..MaxDownloads :
          /\ WF_vars(\E lastError \in BOOLEAN : SearchCallback(id, lastError))
          /\ WF_vars(TimerFires(id))

(***************************************************************************)
(* Notification scenario: NotificationManager's queue. processQueue runs   *)
(* up to its await in one step; the promise of the notification shown and  *)
(* the 1000 ms timer each resume it in a later step. A chain is one        *)
(* processQueue invocation that has not ended: it waits for the            *)
(* notification shown ("showing") or it has set the timer ("timer").       *)
(***************************************************************************)
MaxNotifications == 3

\* the NotificationManager as one value
Manager ==
    [notificationQueue |-> notificationQueue, isProcessing |-> isProcessing,
     chains |-> chains, shown |-> shownLog.shown]

\* the first position of q that holds the highest priority
RECURSIVE FirstHighest(_, _, _)
FirstHighest(q, k, best) ==
    IF k > Len(q) THEN best
    ELSE FirstHighest(q, k + 1, IF q[k].priority > q[best].priority THEN k ELSE best)

\* notificationQueue.sort((a, b) => b.priority - a.priority): by descending
\* priority, notifications of equal priority keeping their order
RECURSIVE sortByPriority(_)
sortByPriority(q) ==
    IF q = <<>> THEN <<>>
    ELSE LET k == FirstHighest(q, 1, 1)
         IN <<q[k]>> \o sortByPriority(SubSeq(q, 1, k - 1) \o SubSeq(q, k + 1, Len(q)))

\* NotificationManager.processQueue, up to the await of the notification
processQueue(m) ==
    IF m.notificationQueue = <<>> THEN [m EXCEPT !.isProcessing = FALSE]
    ELSE LET sorted == sortByPriority(m.notificationQueue)
         IN [notificationQueue |-> Tail(sorted), isProcessing |-> TRUE,
             chains |-> Append(m.chains, "showing"),
             shown |-> Append(m.shown, Head(sorted))]

\* mutant: processQueue is called whether or not the queue is being processed
addToQueueUnguarded(m, notification) ==
    processQueue([m EXCEPT !.notificationQueue = Append(@, notification)])

\* NotificationManager.addToQueue
addToQueue(m, notification) ==
    LET pushed == [m EXCEPT !.notificationQueue = Append(@, notification)]
    IN IF ~m.isProcessing THEN processQueue(pushed) ELSE pushed

\* chains without the one at position k
WithoutChain(k) == SubSeq(chains, 1, k - 1) \o SubSeq(chains, k + 1, Len(chains))

notNotifVars ==
    <<registryVars, convVars, normVars, pipeVars, fileVars, downloadVars,
      statusVars, pc>>

\* new NotificationManager()
NotifInit ==
    /\ NotifIdle
    /\ pc = "notifications"
    /\ RegistryIdle /\ ConvIdle /\ NormIdle
    /\ PipeIdle /\ FileIdle /\ DownloadIdle /\ StatusIdle

\* showSuccess (priority 0), showInfo (1) or showError (2) -> addToQueue
AddToQueue(priority) ==
    /\ pc = "notifications"
    /\ shownLog.added < MaxNotifications
    /\ \E r \in {addToQueue(Manager, [id |-> shownLog.added + 1,
                                       priority |-> priority])} :
          /\ notificationQueue' = r.notificationQueue
          /\ isProcessing' = r.isProcessing
          /\ chains' = r.chains
          /\ shownLog' = [shownLog EXCEPT !.added = @ + 1, !.shown = r.shown]
    /\ UNCHANGED notNotifVars

\* the awaited showChromeNotification / showInPageNotification of chain k
\* settles (a rejection is caught and logged): the 1000 ms timer is set
ShowSettles(k) ==
    /\ chains[k] = "showing"
    /\ chains' = [chains EXCEPT ![k] = "timer"]
    /\ UNCHANGED <<notificationQueue, isProcessing, shownLog, notNotifVars>>

\* the timer of chain k fires: processQueue()
TimerProcessQueue(k) ==
    /\ chains[k] = "timer"
    /\ \E r \in {processQueue([Manager EXCEPT !.chains = WithoutChain(k)])} :
          /\ notificationQueue' = r.notificationQueue
          /\ isProcessing' = r.isProcessing
          /\ chains' = r.chains
          /\ shownLog' = [shownLog EXCEPT !.shown = r.shown]
    /\ UNCHANGED notNotifVars

\* NotificationManager.clearAll (on an empty queue it changes nothing)
ClearAll ==
    /\ pc = "notifications"
    /\ notificationQueue # <<>>
    /\ notificationQueue' = <<>>
    /\ shownLog' = [shownLog EXCEPT
                       !.cleared = @ \cup {notificationQueue[k].id :
                                             k \in 1..Len(notificationQueue)}]
    /\ UNCHANGED <<isProcessing, chains, notNotifVars>>

NotifNext ==
    \/ \E priority \in 0..2 : AddToQueue(priority)
    \/ \E k \in 1..Len(chains) : ShowSettles(k)
    \/ \E k \in 1..Len(chains) : TimerProcessQueue(k)
    \/ ClearAll

\* the event loop settles every notification shown and fires every timer set
SpecNotif ==
    /\ NotifInit /\ [][NotifNext]_vars
    /\ WF_vars(\E k \in 1..Len(chains) : ShowSettles(k))
    /\ WF_vars(\E k \in 1..Len(chains) : TimerProcessQueue(k))

(***************************************************************************)
(* Status scenario: setStatus calls on a StatusManager (part_000) or on a   *)
(* BackgroundStatusManager (part_002). A history entry is [status,          *)
(* previous]; its data and timestamp play no part in what is kept.          *)
(***************************************************************************)
MaxErrors == 1

\* if (this.statusHistory.length > 100) ... slice(-50)  (part_000:416-417)
StatusHistoryLimit == 100
StatusHistoryKept == 50

\* if (this.statusHistory.length > 50) ... slice(-25)  (part_002:221-222)
BackgroundHistoryLimit == 50
BackgroundHistoryKept == 25

HistoryLimit == IF pc = "statusManager" THEN StatusHistoryLimit ELSE BackgroundHistoryLimit

HistoryKept == IF pc = "statusManager" THEN StatusHistoryKept ELSE BackgroundHistoryKept

\* mutant: previous is read after currentStatus has been assigned
setStatusPreviousAfter(current, history, status) ==
    LET pushed == Append(history, [status |-> status, previous |-> status])
    IN [currentStatus |-> status,
        statusHistory |-> IF Len(pushed) > HistoryLimit
                          THEN SubSeq(pushed, Len(pushed) - HistoryKept + 1, Len(pushed))
                          ELSE pushed]

\* setStatus(status): previous is the status before the call; the entry is
\* pushed; a history longer than the limit is cut to its last entries
setStatus(current, history, status) ==
    LET pushed == Append(history, [status |-> status, previous |-> current])
    IN [currentStatus |-> status,
        statusHistory |-> IF Len(pushed) > HistoryLimit
                          THEN SubSeq(pushed, Len(pushed) - HistoryKept + 1, Len(pushed))
                          ELSE pushed]

\* new StatusManager(), or new BackgroundStatusManager()
StatusInit ==
    /\ StatusIdle
    /\ pc \in {"statusManager", "backgroundStatus"}
    /\ RegistryIdle /\ ConvIdle /\ NormIdle
    /\ PipeIdle /\ FileIdle /\ DownloadIdle /\ NotifIdle

\* statusManager.setStatus(status, data)
SetStatus(status) ==
    /\ pc \in {"statusManager", "backgroundStatus"}
    /\ status = "error" => statusCalls < MaxErrors
    /\ statusCalls' = statusCalls + (IF status = "error" THEN 1 ELSE 0)
    /\ \E r \in {setStatus(currentStatus, statusHistory, status)} :
          /\ currentStatus' = r.currentStatus
          /\ statusHistory' = r.statusHistory
    /\ UNCHANGED <<registryVars, convVars, normVars, pipeVars, fileVars, downloadVars,
                   notifVars, pc>>

StatusNext == \E status \in {"processing", "error"} : SetStatus(status)

SpecStatus == StatusInit /\ [][StatusNext]_vars

(***************************************************************************)
(* Claims about the normalizer (checked under SpecNorm)                    *)
(***************************************************************************)

\* C1: applying postProcess twice gives the same result as applying it once:
\* postProcess(postProcess(x)) = postProcess(x) for every input string x.
C1_Idempotent == pc = "norm2" => twice = once

\* s holds three consecutive newline characters somewhere
HasTripleNewline(s) == \E i \in 1..Len(s) : HasAt(s, i, <<NL, NL, NL>>)

\* C6: the string returned by postProcess holds no run of three or more
\* consecutive newline characters.
C6_NoTripleNewline == pc = "norm1" => ~HasTripleNewline(once)

\* the fenced blocks of s as <<opening fence, closing fence>> positions,
\* pairing the fences from position i on in order of occurrence
RECURSIVE FencedBlocks(_, _)
FencedBlocks(s, i) ==
    LET o == FenceClose(s, i)
        c == IF o = 0 THEN 0 ELSE FenceClose(s, o + 3)
    IN IF o = 0 \/ c = 0 THEN {} ELSE {<<o, c>>} \cup FencedBlocks(s, c + 3)

\* number of consecutive newlines that end just before position i
RECURSIVE NewlinesBefore(_, _)
NewlinesBefore(s, i) ==
    IF i > 1 /\ s[i - 1] = NL THEN 1 + NewlinesBefore(s, i - 1) ELSE 0

\* C7: in the string returned by postProcess every fenced code block whose
\* opening fence starts a line and that is not at the very start (end) of the
\* document has exactly two newline characters, one blank line, before
\* (after) it.
C7_OneBlankLineAroundFence ==
    pc = "norm1" =>
        \A b \in FencedBlocks(once, 1) :
            AtLineStart(once, b[1]) =>
                /\ b[1] > 1 => NewlinesBefore(once, b[1]) = 2
                /\ b[2] + 2 < Len(once) =>
                       RunLen(once, b[2] + 3, {NL}, TRUE) = 2

(***************************************************************************)
(* Claims about the rule registry (checked under SpecRegistry)             *)
(***************************************************************************)

\* the positions, in the history of addRule calls, of the rules whose filter
\* matches the node
MatchingCalls(node) ==
    {k \in 1..Len(added) : Truthy(matchesFilter(node, added[k].filter))}

\* the name of the rule findMatchingRule returns for a node, in a converter
\* that holds the default and the custom rules
WinnerFor(node) == findMatchingRule(rules, node).name

\* C2: findMatchingRule(node) returns the most recently added rule among the
\* rules whose filter matches the node, or none when no filter matches; in a
\* MarkdownConverter the custom rules win for the tags they share with the
\* defaults (img, blockquote, ul/ol, pre containing code), and a pre without
\* code keeps the default rule codeBlock.
C2_MostRecentlyAddedWins ==
    /\ query.op = "find" =>
          LET M == MatchingCalls(query.node)
          IN IF M = {} THEN query.rule = NoRule
             ELSE query.rule = added[CHOOSE k \in M : \A m \in M : m <= k]
    /\ added = DefaultRuleCalls \o CustomRuleCalls =>
          /\ WinnerFor(El(Tag.img, <<>>)) = "images"
          /\ WinnerFor(El(Tag.blockquote, <<txt>>)) = "blockquotes"
          /\ WinnerFor(El(Tag.ul, <<>>)) = "improvedLists"
          /\ WinnerFor(El(Tag.ol, <<>>)) = "improvedLists"
          /\ WinnerFor(El(Tag.pre, <<El(Tag.code, <<txt>>)>>)) = "codeBlocks"
          /\ WinnerFor(El(Tag.pre, <<txt>>)) = "codeBlock"

\* a lookup in a MarkdownConverter, after a user rule was added, of a pre
\* that holds code: several rules match it
C2_Witness ==
    /\ query.op = "find"
    /\ pc = "converter"
    /\ userAdds > 0
    /\ query.node = El(Tag.pre, <<El(Tag.code, <<txt>>)>>)
    /\ Cardinality(MatchingCalls(query.node)) >= 3
    /\ query.rule # NoRule

\* two characters that are the same letter in either case, or equal
SameIgnoringCase(c, d) ==
    \/ c = d
    \/ \E i \in 1..Len(UpperLetters) : {c, d} = {UpperLetters[i], LowerLetters[i]}

EqualIgnoringCase(a, b) ==
    /\ Len(a) = Len(b)
    /\ \A i \in 1..Len(a) : SameIgnoringCase(a[i], b[i])

\* what the claim says a filter matches
RECURSIVE FilterMatches(_, _)
FilterMatches(node, filter) ==
    \/ filter.kind = "string" /\ EqualIgnoringCase(filter.str, node.name)
    \/ filter.kind = "array" /\ \E k \in 1..Len(filter.items) :
                                    FilterMatches(node, filter.items[k])
    \/ filter.kind = "function" /\ Truthy(ApplyFilterFunction(filter.fn, node))

\* C5 (checked under SpecFilter): matchesFilter(node, filter) is true exactly when the filter is a
\* string equal to the node's tag name ignoring case, or a list with at least
\* one matching member, or a predicate returning a true value for the node;
\* it is false for any other filter value.
C5_MatchesFilter ==
    query.op = "match" =>
        (Truthy(query.result) <=> FilterMatches(query.node, query.filter))

\* a string filter that matches a node whose name differs from it in case only
C5_Witness ==
    /\ query.op = "match"
    /\ query.filter.kind = "string"
    /\ query.filter.str # query.node.name
    /\ query.filter.str # toLowerCase(query.node.name)
    /\ Truthy(query.result)

(***************************************************************************)
(* Claims about the walker and the conversion (checked under SpecConvert)  *)
(***************************************************************************)

\* the events of the conversion that was run, by position in the log
LogIndex == 1..Len(conv.log)

\* C3: during a conversion at most one rule fires per element node: the
\* replacement that is invoked for a node is the one of the first matching
\* rule in priority order, and no replacement is invoked for the same node
\* (same document, same position) a second time, li elements included.
C3_AtMostOneRuleFires ==
    \A i \in LogIndex :
        LET e == conv.log[i]
        IN e.rule # "" =>
              /\ e.rule = findMatchingRule(rules, e.node).name
              /\ \A j \in LogIndex :
                    (j # i /\ conv.log[j].doc = e.doc /\ conv.log[j].path = e.path)
                        => conv.log[j].rule = ""

\* what processNode returned for child k of the element of event e
ChildOutput(e, k) ==
    LET child == e.node.kids[k]
    IN IF child.type = "text" THEN child.text
       ELSE IF child.type # "element" THEN <<>>
       ELSE LET i == CHOOSE i \in LogIndex :
                        /\ conv.log[i].doc = e.doc
                        /\ conv.log[i].path = e.path \o <<k>>
            IN conv.log[i].out

\* C4: for every element that no rule's filter matches, processNode returns
\* exactly the concatenation, in document order, of what processNode returned
\* for each child node, with nothing before, between or after.
C4_PassThrough ==
    \A i \in LogIndex :
        LET e == conv.log[i]
        IN (e.rule = "" /\ findMatchingRule(rules, e.node) = NoRule) =>
              /\ \A k \in 1..Len(e.node.kids) :
                    IsElement(e.node.kids[k]) =>
                        \E j \in LogIndex : /\ conv.log[j].doc = e.doc
                                            /\ conv.log[j].path = e.path \o <<k>>
                                            /\ conv.log[j].node = e.node.kids[k]
              /\ e.out = Flatten([k \in 1..Len(e.node.kids) |-> ChildOutput(e, k)])

\* an unmatched span or div (not the body) with a text child and an element
\* child that a rule matched was converted, and its output is not empty
C4_Witness ==
    \E i \in LogIndex :
        LET e == conv.log[i]
        IN /\ e.rule = ""
           /\ e.path # <<>>
           /\ Len(e.node.kids) >= 2
           /\ \E k \in 1..Len(e.node.kids) : e.node.kids[k].type = "text"
           /\ \E k \in 1..Len(e.node.kids) :
                 /\ IsElement(e.node.kids[k])
                 /\ findMatchingRule(rules, e.node.kids[k]) # NoRule
                 /\ ChildOutput(e, k) # <<>>
           /\ e.out # <<>>

\* the pre elements of the input that hold a code element
PreWithCode ==
    LET pres == querySelectorAll(parseBody(input.html), {Tag.pre})
    IN {pres[k] : k \in {k \in 1..Len(pres) :
                            querySelectorAll(pres[k], {Tag.code}) # <<>>}}

\* the fenced block that holds the text of the code element of pre verbatim
VerbatimBlock(pre) ==
    LET code == querySelectorAll(pre, {Tag.code})[1]
    IN Fence \o LanguageFrom(AttrOr(code, "class", <<>>), 1) \o <<NL>>
         \o textContent(code) \o <<NL>> \o Fence

\* C8: for every pre element that holds a code element, the markdown returned
\* by convert() holds a fenced block whose text, between the opening and the
\* closing fence, is the text content of the code element character for
\* character (indentation, trailing spaces and blank lines included).
C8_CodeTextVerbatim ==
    (conv.op = "convert" /\ conv.status = "ok") =>
        \A pre \in PreWithCode :
            \E i \in 1..Len(conv.markdown) :
                HasAt(conv.markdown, i, VerbatimBlock(pre))

\* the lines of a list's output on which an item starts (the other lines are
\* blank or indented continuation lines)
ItemStarts(out) ==
    SelectSeq(Split(out, NL), LAMBDA l : l # <<>> /\ l[1] # SP)

\* the events of the list transform of MarkdownConverter
ListEvents == {i \in LogIndex : conv.log[i].rule = "improvedLists"}

\* C9: the items that the list transform emits for an ordered list are
\* numbered 1, 2, ..., k consecutively in output order, whatever the start
\* attribute and whatever the li elements hold (empty li, nested lists); the
\* items of an unordered list start with the marker "- ".
C9_ConsecutiveNumbers ==
    \A i \in ListEvents :
        LET e == conv.log[i]
            items == ItemStarts(e.out)
        IN \A k \in 1..Len(items) :
              IF toLowerCase(e.node.name) = Tag.ol
              THEN HasAt(items[k], 1, NumberToString(k) \o <<".", SP>>)
              ELSE HasAt(items[k], 1, <<"-", SP>>)

\* the li children of a list element
DirectItems(listNode) ==
    SelectSeq(listNode.kids, LAMBDA c : IsElement(c) /\ toLowerCase(c.name) = Tag.li)

\* number of occurrences of the character c in s
RECURSIVE Count(_, _)
Count(c, s) ==
    IF s = <<>> THEN 0 ELSE (IF Head(s) = c THEN 1 ELSE 0) + Count(c, Tail(s))

\* the list of event i is not inside another list
Outermost(i) ==
    \A j \in ListEvents :
        ~(/\ conv.log[j].doc = conv.log[i].doc
          /\ Len(conv.log[j].path) < Len(conv.log[i].path)
          /\ conv.log[j].path = Sub(conv.log[i].path, 1, Len(conv.log[j].path)))

\* C10: the list transform emits items for the direct li children of the
\* list only (an li of a list nested inside an item is not an item of the
\* outer list), and the text of every li appears exactly once in the output
\* of the outermost list.
C10_DirectItemsOnly ==
    \A i \in ListEvents :
        LET e == conv.log[i]
        IN /\ Len(ItemStarts(e.out)) <= Len(DirectItems(e.node))
           /\ Outermost(i) =>
                 \A c \in {"a", "b", "c"} :
                     Count(c, e.out) = Count(c, textContent(e.node))

\* the input is one ul or ol element
ListInput ==
    /\ input.type = "string"
    /\ LET kids == parseBody(input.html).kids
       IN /\ Len(kids) = 1
          /\ IsElement(kids[1])
          /\ toLowerCase(kids[1].name) \in {Tag.ul, Tag.ol}

\* C11: in the markdown that convert() returns for a list, every line of an
\* item after its first line starts with 2 spaces when the list is unordered
\* and with 3 spaces when it is ordered (every line that holds text is the
\* first line of an item, which starts with the marker, or is indented).
C11_ContinuationIndent ==
    (conv.op = "convert" /\ conv.status = "ok" /\ ListInput) =>
        LET ordered == toLowerCase(parseBody(input.html).kids[1].name) = Tag.ol
            indent == IF ordered THEN <<SP, SP, SP>> ELSE <<SP, SP>>
            lines == Split(conv.markdown, NL)
        IN \A k \in 1..Len(lines) :
              lines[k] # <<>> =>
                 \/ HasAt(lines[k], 1, indent)
                 \/ IF ordered THEN \E d \in 1..10 : lines[k][1] = Digits[d]
                    ELSE HasAt(lines[k], 1, <<"-", SP>>)

(***************************************************************************)
(* Claims about the element transforms (checked under SpecElements)        *)
(***************************************************************************)

\* the lines of a string that are not empty
Lines(out) == SelectSeq(Split(out, NL), LAMBDA l : l # <<>>)

\* the events of the table transform
TableEvents == {i \in LogIndex : conv.log[i].rule = "tables"}

\* the cells of a row as the claim describes them: trimmed text, pipes escaped
CellsOf(row) ==
    LET cells == querySelectorAll(row, {Tag.td, Tag.th})
    IN [k \in 1..Len(cells) |-> EscapePipes(Trim(textContent(cells[k])))]

\* the line "| cell | cell |" of a row
RowLineOf(row) == <<"|", SP>> \o Join(CellsOf(row), <<SP, "|", SP>>) \o <<SP, "|">>

\* the separator line after a row: one "---" per cell of the row
SeparatorOf(row) ==
    <<"|", SP>> \o Join([k \in 1..Len(CellsOf(row)) |-> <<"-", "-", "-">>],
                        <<SP, "|", SP>>) \o <<SP, "|">>

HasHeader(table) ==
    LET rows == querySelectorAll(table, {Tag.tr})
    IN \/ querySelectorAll(table, {Tag.thead}) # <<>>
       \/ querySelectorAll(rows[1], {Tag.th}) # <<>>

\* the lines the claim expects for a table with at least one row
ExpectedTableLines(table) ==
    LET rows == querySelectorAll(table, {Tag.tr})
    IN <<RowLineOf(rows[1])>>
         \o (IF HasHeader(table) THEN <<SeparatorOf(rows[1])>> ELSE <<>>)
         \o [k \in 1..(Len(rows) - 1) |-> RowLineOf(rows[k + 1])]

\* C12: for a table with at least one tr the table transform emits one
\* "| cell | cell |" line per row in document order and exactly one separator
\* line, right after the first row, with one "---" per cell of that row, if
\* and only if the table has a thead or its first row holds a th; a table
\* with no rows yields the empty string.
C12_TableLines ==
    \A i \in TableEvents :
        LET e == conv.log[i]
        IN IF querySelectorAll(e.node, {Tag.tr}) = <<>> THEN e.out = <<>>
           ELSE Lines(e.out) = ExpectedTableLines(e.node)

\* what the claim expects the table transform to return for the rows from k
RECURSIVE ExpectedRowsFrom(_, _)
ExpectedRowsFrom(table, k) ==
    LET rows == querySelectorAll(table, {Tag.tr})
    IN IF k > Len(rows) THEN <<>>
       ELSE RowLineOf(rows[k]) \o <<NL>>
              \o (IF k = 1 /\ HasHeader(table) THEN SeparatorOf(rows[1]) \o <<NL>>
                  ELSE <<>>)
              \o ExpectedRowsFrom(table, k + 1)

\* number of backslashes that end just before position i
RECURSIVE BackslashesBefore(_, _)
BackslashesBefore(s, i) ==
    IF i > 1 /\ s[i - 1] = "\\" THEN 1 + BackslashesBefore(s, i - 1) ELSE 0

\* the pipes of s that no backslash escapes (a backslash that is itself
\* escaped escapes nothing)
UnescapedPipes(s) ==
    {i \in 1..Len(s) : s[i] = "|" /\ BackslashesBefore(s, i) % 2 = 0}

\* C13: in every row line the table transform emits, each cell is the trimmed
\* text content of the cell with every "|" replaced by "\|", and the only
\* unescaped "|" characters of the row line are its cells+1 column
\* delimiters.
C13_PipesEscaped ==
    \A i \in TableEvents :
        LET e == conv.log[i]
            rows == querySelectorAll(e.node, {Tag.tr})
        IN rows # <<>> =>
              /\ e.out = <<NL, NL>> \o ExpectedRowsFrom(e.node, 1) \o <<NL>>
              /\ \A k \in 1..Len(rows) :
                    Cardinality(UnescapedPipes(RowLineOf(rows[k])))
                        = Len(CellsOf(rows[k])) + 1

\* C14: for every strong, b, em, i element with child output c the transform
\* returns the empty string when c is whitespace-only, and otherwise the
\* delimiter, trim(c) and the delimiter ("**" for strong/b, "_" for em/i), so
\* that no whitespace of c remains between a delimiter and the content.
C14_TrimmedInsideDelimiters ==
    \A i \in LogIndex :
        LET e == conv.log[i]
            delimiter == IF e.rule = "strong" THEN <<"*", "*">> ELSE <<"_">>
        IN e.rule \in {"strong", "emphasis"} =>
              e.out = IF Trim(e.content) = <<>> THEN <<>>
                      ELSE delimiter \o Trim(e.content) \o delimiter

\* the value of attribute a of node n, or the empty string without one
AttrValue(n, a) ==
    IF \E p \in n.attrs : p[1] = a THEN (CHOOSE p \in n.attrs : p[1] = a)[2] ELSE <<>>

\* C15: for every a element with child output c the link transform returns
\* [c](href "title") when href is present, without the title clause when
\* there is no title, and exactly c, with no brackets or parentheses, when
\* href is missing or empty.
C15_LinkOrPlainContent ==
    \A i \in LogIndex :
        LET e == conv.log[i]
            href == AttrValue(e.node, "href")
            title == AttrValue(e.node, "title")
        IN e.rule = "link" =>
              e.out = IF href = <<>> THEN e.content
                      ELSE IF title = <<>>
                           THEN <<"[">> \o e.content \o <<"]", "(">> \o href \o <<")">>
                           ELSE <<"[">> \o e.content \o <<"]", "(">> \o href
                                  \o <<SP, "\"">> \o title \o <<"\"", ")">>

\* a link without href, with a title and with content, was converted by
\* convert(), and the markdown is the content alone
C15_Witness ==
    /\ conv.op = "convert"
    /\ \E i \in LogIndex :
          /\ conv.log[i].rule = "link"
          /\ AttrValue(conv.log[i].node, "href") = <<>>
          /\ AttrValue(conv.log[i].node, "title") # <<>>
          /\ conv.log[i].content # <<>>
          /\ conv.markdown = conv.log[i].content

\* the events of the blockquote transform of MarkdownConverter
QuoteEvents == {i \in LogIndex : conv.log[i].rule = "blockquotes"}

\* d copies of "> "
RECURSIVE QuotePrefix(_)
QuotePrefix(d) == IF d <= 0 THEN <<>> ELSE <<">", SP>> \o QuotePrefix(d - 1)

\* the quote of event j lies d - 1 levels inside the quote of event i, each
\* quote from i down to the parent of j holding the next quote and nothing else
NestedIn(i, j, d) ==
    LET e == conv.log[i]
        f == conv.log[j]
    IN /\ e.doc = f.doc
       /\ Len(f.path) = Len(e.path) + d - 1
       /\ Sub(f.path, 1, Len(e.path)) = e.path
       /\ \A n \in Len(e.path)..(Len(f.path) - 1) :
             \E g \in QuoteEvents : /\ conv.log[g].doc = e.doc
                                    /\ conv.log[g].path = Sub(f.path, 1, n)
                                    /\ Len(conv.log[g].node.kids) = 1

\* C16: for blockquotes nested to any depth d >= 1 each level adds exactly one
\* "> " per line: the output of the outermost quote is framed by blank lines,
\* and its lines are the content lines of the innermost quote in order, each
\* non-empty line trimmed and prefixed by d copies of "> ", each blank line
\* turned into a bare ">" at its level (d - 1 copies of "> " before it).
C16_NestedQuotePrefixes ==
    \A i, j \in QuoteEvents :
        \A d \in 1..(MaxDepth + 1) :
            NestedIn(i, j, d) =>
                LET inner == Split(Trim(conv.log[j].content), NL)
                    out == conv.log[i].out
                IN out = <<NL, NL>>
                           \o Join([k \in 1..Len(inner) |->
                                      IF Trim(inner[k]) = <<>>
                                      THEN QuotePrefix(d - 1) \o <<">">>
                                      ELSE QuotePrefix(d) \o Trim(inner[k])],
                                   <<NL>>)
                           \o <<NL, NL>>

\* a quote nested three deep whose innermost content has two paragraphs, a
\* blank line between them, was converted
C16_Witness ==
    \E i, j \in QuoteEvents :
        /\ NestedIn(i, j, 3)
        /\ \E k \in 1..Len(Split(Trim(conv.log[j].content), NL)) :
              Split(Trim(conv.log[j].content), NL)[k] = <<>>
        /\ HasAt(conv.log[i].out, 1, <<NL, NL, ">", SP, ">", SP, ">", SP, "a", NL>>)

\* the nodes of the input as preProcessHtml parses it
InputNodes ==
    IF input.type = "string" THEN DescendantsOfAll(parseFragment(input.html)) ELSE <<>>

IsScript(n) ==
    IsElement(n) /\ toLowerCase(n.name) \in {Tag.script, Tag.style, Tag.noscript}

\* the script, style and noscript elements of the input and the nodes under
\* them
ScriptNodes ==
    UNION { {InputNodes[k]}
              \cup {Descendants(InputNodes[k])[m] :
                      m \in 1..Len(Descendants(InputNodes[k]))} :
            k \in {k \in 1..Len(InputNodes) : IsScript(InputNodes[k])} }

\* the characters of the text under script, style, noscript elements that
\* occur nowhere else in the input
ScriptOnlyChars ==
    LET inside == UNION {{n.text[c] : c \in 1..Len(n.text)} : n \in ScriptNodes}
        outside == UNION {{InputNodes[k].text[c] : c \in 1..Len(InputNodes[k].text)} :
                            k \in {k \in 1..Len(InputNodes) :
                                     InputNodes[k] \notin ScriptNodes}}
    IN inside \ outside

InvalidInput == input.type # "string" \/ input.html = <<>>

\* C18: convert(html) fails for every html that is not a string and for the
\* empty string, before any processing: neither preProcessHtml nor turndown
\* nor a replacement is invoked, and no result is produced.
C18_InvalidInputFailsFast ==
    (conv.op = "convert" /\ InvalidInput) =>
        /\ conv.status = "error"
        /\ conv.trace = <<>>
        /\ conv.log = <<>>
        /\ conv.markdown = <<>>

\* convert('') was called and failed
C18_Witness ==
    /\ conv.op = "convert"
    /\ input = JSString(<<>>)
    /\ conv.status = "error"

\* the option values the claim calls supported
Supported(o) ==
    /\ o.headingStyle = "atx"
    /\ o.codeBlockStyle = "fenced"
    /\ o.linkStyle = "inlineLink"
    /\ o.emDelimiter \in {"_", "*"}
    /\ o.strongDelimiter \in {"**", "__"}

\* C19: constructing the converter with an unsupported option value fails at
\* construction (ConfigurationError); no converter that carries an
\* unsupported value is ever created.
C19_UnsupportedOptionsRejected ==
    query.op = "construct" =>
        /\ ~Supported(TurndownOptions(query.passed)) => query.status = "error"
        /\ query.status = "ok" => Supported(query.options)

\* the sanitized input holds an element for which the walker invokes the
\* replacement that throws
MeetsThrowingRule ==
    /\ ~InvalidInput
    /\ LET nodes == Descendants(parseBody(preProcessHtml(input.html)))
       IN \E k \in 1..Len(nodes) :
             /\ IsElement(nodes[k])
             /\ Throws(findMatchingRule(rules, nodes[k]).name)

\* C20: conversion is all-or-nothing: if a replacement throws while convert()
\* runs, convert fails with the error and returns no result, hence no
\* partial markdown; nothing runs after the throw.
C20_AllOrNothing ==
    (conv.op = "convert" /\ MeetsThrowingRule) =>
        /\ conv.status = "error"
        /\ conv.markdown = <<>>
        /\ conv.trace = <<"preProcessHtml", "turndown">>
        /\ conv.log # <<>>
        /\ \A i \in LogIndex : Throws(conv.log[i].rule) <=> i = Len(conv.log)

\* a replacement threw after another replacement had returned text
C20_Witness ==
    /\ conv.op = "convert"
    /\ conv.status = "error"
    /\ MeetsThrowingRule
    /\ \E i \in LogIndex : conv.log[i].rule = "strong" /\ conv.log[i].out # <<>>

(***************************************************************************)
(* Claims about the registry over a session (SpecSession, SpecRegistry)    *)
(***************************************************************************)

\* the rules the user registered, oldest first
UserAdded == SubSeq(added, Len(DefaultRuleCalls) + Len(CustomRuleCalls) + 1, Len(added))

\* C21: no convert() or turndown() call, successful or failed, changes the
\* rule list; a step that changes it is an addRule call, which puts one rule
\* in front and keeps every older rule in its place.
C21_RegistryFrame ==
    [][ /\ (conv' # conv \/ input' # input) => rules' = rules
        /\ rules' # rules =>
              /\ Len(rules') = Len(rules) + 1
              /\ Tail(rules') = rules
              /\ added' = Append(added, Head(rules')) ]_vars

\* a failed conversion was served after the user registered the same name
\* twice, and the registry still holds every rule registered
C21_Witness ==
    /\ conv.op = "convert" /\ conv.status = "error" /\ conv.log # <<>>
    /\ Len(UserAdded) = 2 /\ UserAdded[1] = UserAdded[2]
    /\ rules = addRules(ConverterRules, UserAdded)

\* C22: no two rules of the registry have the same name.
C22_UniqueNames ==
    \A i, j \in 1..Len(rules) : i # j => rules[i].name # rules[j].name


(***************************************************************************)
(* Claims about the extension around the converter (SpecPipe)              *)
(***************************************************************************)

\* C23: the background answers 'processSelectedContent' with success true
\* only when the selection was validated, converted and saved.
C23_SuccessOnlyWhenSaved ==
    (background.response.sent /\ background.response.success) =>
        (background.status = "completed" /\ background.converted /\ background.saved)

\* the notifications the content script showed
Noticed(kind) == \E k \in 1..Len(selector.notices) : selector.notices[k] = kind

\* C24: handleMarkdownConversion shows the success notification only when
\* convert() succeeded; when convert() fails it shows an error notification
\* and no success notification, and rejects with the wrapped error.
C24_SuccessNoticeAfterConversion ==
    (selector.op = "convertToMarkdown" /\ selector.notices # <<>>) =>
        /\ Noticed("success") => conv.status = "ok"
        /\ conv.status = "error" =>
              /\ Noticed("error")
              /\ selector.settled = "rejected"
              /\ Head(selector.error) = "Markdown conversion failed"

\* C26: a handleSave that ended without success leaves the popup's status
\* 'error' and the loading state cleared.
C26_FailureLeavesError ==
    (popup.pc = "ended" /\ popup.shown # "success") =>
        (popup.currentStatus = "error" /\ ~popup.loading)


(***************************************************************************)
(* Claims about FileHandler.saveContent (SpecSaves)                        *)
(***************************************************************************)

\* the calls whose record the stored history holds
Recorded == {saveHistory[k] : k \in 1..Len(saveHistory)}

\* C25: the stored history holds a record for every completed save (one
\* whose storage write succeeded); with at most MaxSaves records newer than
\* it, the cap of 50 has not removed it.
C25_NoCompletedSaveLost ==
    \A i \in 1..Len(saves) :
        (saves[i].pc = "resolved" /\ saves[i].wrote) => i \in Recorded

\* C28 as amended: a step changes lastUsedMode only when it is the step in
\* which a call's save operation succeeds, and then sets it to that call's
\* mode; a call that rejects has, from its start to its rejection, neither
\* changed lastUsedMode nor added a record; rejected calls are those whose
\* mode is unsupported or whose operation failed.
C28_ModeWrittenOnSuccessOnly ==
    [][ /\ lastUsedMode' # lastUsedMode =>
              \E i \in 1..Len(saves) :
                  /\ saves[i].pc = "saving" /\ saves'[i].pc = "reading"
                  /\ lastUsedMode' = saves[i].mode
        /\ \A i \in 1..Len(saves) :
              (saves[i].pc = "saving" /\ saves'[i].pc = "reading") =>
                  lastUsedMode' = saves[i].mode
        /\ \A i \in 1..Len(saves') :
              saves'[i].pc = "rejected" =>
                  /\ i \notin {saveHistory'[k] : k \in 1..Len(saveHistory')}
                  /\ (i > Len(saves) \/ saves[i].pc # "rejected") =>
                        (lastUsedMode' = lastUsedMode /\ saveHistory' = saveHistory)
      ]_vars

\* an append was saved and recorded, then a call with an unsupported mode
\* and none since: lastUsedMode is still 'append'
C28_Witness ==
    /\ Len(saves) = 2
    /\ saves[1].pc = "resolved" /\ saves[1].mode = "append" /\ 1 \in Recorded
    /\ saves[2].pc = "rejected" /\ saves[2].mode = "overwrite"
    /\ lastUsedMode = "append"

\* C28 as stated: once a saveContent call has resolved, lastUsedMode equals
\* the mode it used (until a later call is made)
C28_ModeOfResolvedCall ==
    [][ \A i \in 1..Len(saves) :
            (saves[i].pc # "resolved" /\ saves'[i].pc = "resolved") =>
                lastUsedMode' = saves[i].mode ]_vars


(***************************************************************************)
(* Claims about waitForDownloadComplete (SpecDownloads)                    *)
(***************************************************************************)

Settled(id) == waits[id].pc \in {"resolved", "rejected"}

QueuedIds == {notificationQueue[k].id : k \in 1..Len(notificationQueue)}

ShownIds == {shownLog.shown[k].id : k \in 1..Len(shownLog.shown)}

C30_HistoryBoundedAndLinked ==
    /\ [](/\ Len(statusHistory) <= HistoryLimit
          /\ statusHistory # <<>> =>
                currentStatus = statusHistory[Len(statusHistory)].status
          /\ \A k \in 2..Len(statusHistory) :
                statusHistory[k].previous = statusHistory[k - 1].status)
    /\ [][Len(statusHistory) = HistoryLimit =>
            /\ Len(statusHistory') = HistoryKept
            /\ SubSeq(statusHistory', 1, HistoryKept - 1)
                  = SubSeq(statusHistory, HistoryLimit - HistoryKept + 2, HistoryLimit)]_vars

\* a StatusManager whose history was cut to its last 50 entries, an
\* 'error' entry among them
C30_Witness ==
    /\ pc = "statusManager"
    /\ Len(statusHistory) = StatusHistoryKept
    /\ statusHistory[1].previous # "idle"
    /\ \E k \in 2..Len(statusHistory) : statusHistory[k].status = "error"


====
